---- MODULE Spec2Model ----
(***************************************************************************)
(* Epoch-indexed reconciliation and incremental-cache engine of the        *)
(* validator-finances crate: the SQLite ledger store (cache.rs) and the    *)
(* per-fact-type reconcilers (main.rs) for inflation rewards, leader fees   *)
(* and Jito MEV claims.                                                    *)
(***************************************************************************)
EXTENDS Integers, Sequences, FiniteSets, TLC

(***************************************************************************)
(* Bounds of the model.                                                    *)
(***************************************************************************)
\* Epochs of the reconcilers range over 0..MaxEpoch+1.
MaxEpoch == 1
\* Lamport amounts returned by the upstream sources range over 0..MaxAmount.
MaxAmount == 1
\* Leader slots assigned to the validator in one epoch: 0..MaxSlots.
MaxSlots == 1
\* Longest batch handed to one store call of the store-level specification.
MaxBatch == 2
\* Stand-in for 2^63, the sign boundary of the u64 <-> i64 casts of cache.rs.
\* TLC's integers are 32 bits wide, so the 64-bit width is scaled down; every
\* cast below is written relative to this value.
I64Sign == 16777216

(***************************************************************************)
(* Program constants.                                                      *)
(***************************************************************************)
SLOTS_PER_EPOCH == 432000
\* 2^8: `r.commission as u8`
U8Mod == 256
\* config.commission_percent (validator configuration value)
CommissionPercent == 5
\* Basis points of a whole: the divisor of mev_commission_bps in process_jito_epochs.
BpsDenominator == 10000

(***************************************************************************)
(* Integer casts of cache.rs: `x as i64` on binding, `x as u64` / `as u8`  *)
(* on reading a row back.                                                  *)
(***************************************************************************)
AsI64(x) == IF x >= I64Sign THEN (x - I64Sign) - I64Sign ELSE x

AsU64(y) == IF y < 0 THEN (y + I64Sign) + I64Sign ELSE y

AsU8(y) == y % U8Mod

(***************************************************************************)
(* Sequence helpers.                                                       *)
(***************************************************************************)
Range(s) == {s[i] : i \in 1..Len(s)}

\* Rust's `start..=end`, ascending; empty when start > end.
RangeInclusive(start, end) == [i \in 1..(IF end >= start THEN end - start + 1 ELSE 0) |-> start + i - 1]

Min(a, b) == IF a <= b THEN a ELSE b

\* u64::saturating_sub
SaturatingSub(a, b) == IF a >= b THEN a - b ELSE 0

\* The rows of a set ordered by their (signed) epoch column: ORDER BY epoch.
RECURSIVE OrderByEpoch(_)
OrderByEpoch(rows) ==
    IF rows = {} THEN <<>>
    ELSE LET first == CHOOSE r \in rows : \A q \in rows : r.epoch <= q.epoch
         IN  <<first>> \o OrderByEpoch(rows \ {first})

\* Vec::sort_by_key(|r| r.epoch): a stable sort of a sequence by epoch.
RECURSIVE SortByKeyEpoch(_)
SortByKeyEpoch(s) ==
    IF s = <<>> THEN <<>>
    ELSE LET i == CHOOSE k \in 1..Len(s) :
                     /\ \A j \in 1..Len(s) : s[k].epoch <= s[j].epoch
                     /\ \A j \in 1..(k - 1) : s[j].epoch > s[k].epoch
         IN  <<s[i]>> \o SortByKeyEpoch(SubSeq(s, 1, i - 1) \o SubSeq(s, i + 1, Len(s)))

(***************************************************************************)
(* Ledger store (cache.rs).  A table is the set of its rows; the columns   *)
(* are SQLite INTEGERs, i.e. signed 64-bit values.  db maps each table     *)
(* name to its committed contents.                                         *)
(***************************************************************************)
VARIABLES
    db,             \* table name -> set of committed rows
    tx,             \* the open sqlx transaction of a store call, if any
    call            \* the cache call that returned last, with its result

\* The state of a run of a reconciler (main.rs).
VARIABLES
    fact,           \* the fact type reconciled: "rewards", "leader_fees" or "mev"
    pc,             \* position of the run inside its reconciler
    args,           \* start_epoch, end_epoch, current_epoch, no_cache, dune_api_key
    missing,        \* the missing completed epochs computed at the start of the run
    pos,            \* index into missing of the epoch the primary pass fetches next
    rpc_failures,   \* epochs whose primary fetch failed or came back empty
    result,         \* the list the run has collected / returns (rewards, fees, claims)
    ret,            \* "none" while running, then "ok" or the kind of error returned
    queried,        \* epochs the run has issued a primary point query for
    dune,           \* the secondary bulk query of the run: calls, outcome, response
    jito_calls,     \* calls of the run to the MEV primary source (Jito API)
    rows0           \* the rows the table of the fact type held when the run started

\* The account_progress table, and the state of a run of the transfer reconciler
\* (fetch_transfers_with_cache) and of its scan of one tracked account
\* (fetch_transfers_for_account).
VARIABLES
    account_progress,   \* set of rows [account_key, highest_slot] (INTEGER column)
    transfer_run,       \* locals of fetch_transfers_with_cache and its position
    account_scan        \* locals of fetch_transfers_for_account for the current account

\* The argument and the result of categorize_transfers.
VARIABLES
    transfers,          \* the list handed to categorize_transfers
    categorized         \* the CategorizedTransfers it returned

\* The position of run_report_generation and what its steps returned.
VARIABLES
    report

\* The epochs whose fetch in the loop over the missing epochs met an error on one of
\* the epoch's block queries (kept to state what the loop did with them).
VARIABLES
    block_errors

engineVars == <<fact, pc, args, missing, pos, rpc_failures, result, ret, queried, dune,
                jito_calls, rows0, block_errors>>

transferVars == <<account_progress, transfer_run, account_scan>>

categorizeVars == <<transfers, categorized>>

\* The epoch-by-epoch walk of one reconciler over its range, and the command of the
\* CLI in progress.
VARIABLES
    walk,
    cmd

\* The request to an upstream source in progress: the attempts of fetch_mev_claims or
\* the polls of DuneClient::execute_query.
VARIABLES
    upstream

\* The variables the walk and the commands leave alone.
callVars == <<upstream>>

laterVars == <<walk, cmd, callVars>>

\* The variables the store calls and the epoch reconcilers leave alone.
restVars == <<transferVars, categorizeVars, report, laterVars>>

vars == <<db, tx, call, fact, pc, args, missing, pos, rpc_failures, result, ret, queried,
          dune, jito_calls, rows0, block_errors, account_progress, transfer_run, account_scan,
          transfers, categorized, report, walk, cmd, upstream>>

TableNames == {"epoch_rewards", "leader_fees", "mev_claims", "vote_costs", "sol_transfers"}

EmptyDb == [t \in TableNames |-> {}]

\* EpochRewardRow <- EpochReward: the binds of store_epoch_rewards.
RewardToRow(r) ==
    [epoch |-> AsI64(r.epoch),
     amount_lamports |-> AsI64(r.amount_lamports),
     commission |-> r.commission,
     effective_slot |-> AsI64(r.effective_slot)]

\* EpochReward <- EpochRewardRow: the map of get_epoch_rewards.
RowToReward(row) ==
    [epoch |-> AsU64(row.epoch),
     amount_lamports |-> AsU64(row.amount_lamports),
     commission |-> AsU8(row.commission),
     effective_slot |-> AsU64(row.effective_slot)]

\* LeaderFeesRow <- EpochLeaderFees: the binds of store_leader_fees.
FeesToRow(f) ==
    [epoch |-> AsI64(f.epoch),
     leader_slots |-> AsI64(f.leader_slots),
     blocks_produced |-> AsI64(f.blocks_produced),
     skipped_slots |-> AsI64(f.skipped_slots),
     total_fees_lamports |-> AsI64(f.total_fees_lamports)]

\* EpochLeaderFees <- LeaderFeesRow: the map of get_leader_fees.
RowToFees(row) ==
    [epoch |-> AsU64(row.epoch),
     leader_slots |-> AsU64(row.leader_slots),
     blocks_produced |-> AsU64(row.blocks_produced),
     skipped_slots |-> AsU64(row.skipped_slots),
     total_fees_lamports |-> AsU64(row.total_fees_lamports)]

\* MevClaimRow <- MevClaim: the binds of store_mev_claims.
MevToRow(c) ==
    [epoch |-> AsI64(c.epoch),
     total_tips_lamports |-> AsI64(c.total_tips_lamports),
     commission_lamports |-> AsI64(c.commission_lamports)]

\* MevClaim <- MevClaimRow: the map of get_mev_claims.
RowToMev(row) ==
    [epoch |-> AsU64(row.epoch),
     total_tips_lamports |-> AsU64(row.total_tips_lamports),
     commission_lamports |-> AsU64(row.commission_lamports)]

\* VoteCostRow <- EpochVoteCost: the binds of store_vote_costs.
VoteCostToRow(c) ==
    [epoch |-> AsI64(c.epoch),
     vote_count |-> AsI64(c.vote_count),
     total_fee_lamports |-> AsI64(c.total_fee_lamports),
     source |-> c.source]

\* A sol_transfers row <- (SolTransfer, account_key): the binds of store_transfers.
TransferToRow(t, account_key) ==
    [signature |-> t.signature,
     slot |-> AsI64(t.slot),
     from_address |-> t.from,
     to_address |-> t.to,
     amount_lamports |-> AsI64(t.amount_lamports),
     account_key |-> account_key]

\* The primary key of a row: epoch, or (signature, account_key) for sol_transfers.
PrimaryKey(table, row) ==
    IF table = "sol_transfers" THEN <<row.signature, row.account_key>> ELSE <<row.epoch>>

\* INSERT without OR REPLACE and without a primary key.
InsertOrReplace_Appends(table, rows, row) == rows \cup {row}

\* INSERT OR REPLACE INTO table: a row with the same primary key is replaced.
InsertOrReplace(table, rows, row) ==
    {r \in rows : PrimaryKey(table, r) # PrimaryKey(table, row)} \cup {row}

\* The row a store call binds for one element of its batch.
BindRow(table, element) ==
    CASE table = "epoch_rewards" -> RewardToRow(element)
      [] table = "leader_fees"   -> FeesToRow(element)
      [] table = "mev_claims"    -> MevToRow(element)
      [] table = "vote_costs"    -> VoteCostToRow(element)
      [] table = "sol_transfers" -> TransferToRow(element.transfer, element.account_key)

\* The loop of a store call inside its transaction, run to the end.
RECURSIVE ExecuteAll(_, _, _)
ExecuteAll(table, rows, batch) ==
    IF batch = <<>> THEN rows
    ELSE ExecuteAll(table, InsertOrReplace(table, rows, BindRow(table, Head(batch))), Tail(batch))

\* store_epoch_rewards / store_leader_fees / store_mev_claims on success: the
\* committed table.  (An empty batch returns early and leaves it as it is.)
store_epoch_rewards(rows, rewards) == ExecuteAll("epoch_rewards", rows, rewards)

store_leader_fees(rows, fees) == ExecuteAll("leader_fees", rows, fees)

store_mev_claims(rows, claims) == ExecuteAll("mev_claims", rows, claims)

\* WHERE epoch >= ? AND epoch <= ?  with both bounds bound `as i64`.
WhereEpochBetween(rows, start_epoch, end_epoch) ==
    {r \in rows : r.epoch >= AsI64(start_epoch) /\ r.epoch <= AsI64(end_epoch)}

\* Cache::get_epoch_rewards
get_epoch_rewards(rows, start_epoch, end_epoch) ==
    LET sel == OrderByEpoch(WhereEpochBetween(rows, start_epoch, end_epoch))
    IN  [i \in 1..Len(sel) |-> RowToReward(sel[i])]

\* Cache::get_leader_fees
get_leader_fees(rows, start_epoch, end_epoch) ==
    LET sel == OrderByEpoch(WhereEpochBetween(rows, start_epoch, end_epoch))
    IN  [i \in 1..Len(sel) |-> RowToFees(sel[i])]

\* Cache::get_mev_claims
get_mev_claims(rows, start_epoch, end_epoch) ==
    LET sel == OrderByEpoch(WhereEpochBetween(rows, start_epoch, end_epoch))
    IN  [i \in 1..Len(sel) |-> RowToMev(sel[i])]

\* A missing-key query that does not subtract the cached epochs.
get_missing_reward_epochs_Unfiltered(rows, start_epoch, end_epoch) ==
    RangeInclusive(start_epoch, end_epoch)

\* Cache::get_missing_reward_epochs
get_missing_reward_epochs(rows, start_epoch, end_epoch) ==
    LET cached == {AsU64(r.epoch) : r \in WhereEpochBetween(rows, start_epoch, end_epoch)}
    IN  SelectSeq(RangeInclusive(start_epoch, end_epoch), LAMBDA e : e \notin cached)

\* A missing-key query that does not subtract the cached epochs.
get_missing_leader_fee_epochs_Unfiltered(rows, start_epoch, end_epoch) ==
    RangeInclusive(start_epoch, end_epoch)

\* Cache::get_missing_leader_fee_epochs
get_missing_leader_fee_epochs(rows, start_epoch, end_epoch) ==
    LET cached == {AsU64(r.epoch) : r \in WhereEpochBetween(rows, start_epoch, end_epoch)}
    IN  SelectSeq(RangeInclusive(start_epoch, end_epoch), LAMBDA e : e \notin cached)

(***************************************************************************)
(* A store call, statement by statement: the is_empty() early return,      *)
(* pool.begin(), one INSERT OR REPLACE per element inside the transaction, *)
(* tx.commit().  Every await is followed by `?`: on a storage failure the  *)
(* call returns Err and the transaction is dropped, which rolls it back.   *)
(* The elements of the batch argument are drawn as the loop reaches them;  *)
(* tx.batch is the part of the batch executed so far.                      *)
(*                                                                         *)
(* call records the call that returned last: its arguments, its result,    *)
(* for a failed store call the table as it was when the call began         *)
(* (before), for a committed one whether the table was empty then          *)
(* (on_empty) and whether a row it held was replaced (replaced), and for a *)
(* read that directly follows a committed store call into the empty table  *)
(* the batch of that call (fresh, stored).                                 *)
(***************************************************************************)
NoTx == [open |-> FALSE, table |-> "none", batch |-> <<>>, pending |-> {}, before |-> {}]

NoCall == [op |-> "none", table |-> "none", args |-> <<>>, result |-> "none",
           out |-> <<>>, before |-> {}, on_empty |-> FALSE, replaced |-> FALSE,
           fresh |-> FALSE, stored |-> <<>>]

\* A dropped transaction whose executed statements stay.
Rollback_KeepsPending(committed, pending) == pending

\* What a dropped (uncommitted) transaction leaves in the table.
Rollback(committed, pending) == committed

\* Inputs of the store-level specification: epochs on both sides of the sign
\* boundary of the i64 columns, amounts zero (a negative record) and large.
StoreEpochs == {0, 1, I64Sign - 1, I64Sign}

StoreAmounts == {0, I64Sign + 1}

StoreFacts(table) ==
    CASE table = "epoch_rewards" ->
            {[epoch |-> e, amount_lamports |-> a, commission |-> CommissionPercent,
              effective_slot |-> e] : e \in StoreEpochs, a \in StoreAmounts}
      [] table = "leader_fees" ->
            {[epoch |-> e, leader_slots |-> IF a = 0 THEN 0 ELSE 1,
              blocks_produced |-> IF a = 0 THEN 0 ELSE 1, skipped_slots |-> 0,
              total_fees_lamports |-> a] : e \in StoreEpochs, a \in StoreAmounts}
      [] table = "mev_claims" ->
            {[epoch |-> e, total_tips_lamports |-> a, commission_lamports |-> a]
                : e \in StoreEpochs, a \in StoreAmounts}
      [] table = "vote_costs" ->
            {[epoch |-> e, vote_count |-> 1, total_fee_lamports |-> a,
              source |-> IF a = 0 THEN "estimated" ELSE "dune"]
                : e \in StoreEpochs, a \in StoreAmounts}
      [] table = "sol_transfers" ->
            {[transfer |-> [signature |-> sig, slot |-> I64Sign + 1, from |-> "wallet",
                            to |-> "vote", amount_lamports |-> a],
              account_key |-> k]
                : sig \in {"sig1", "sig2"}, a \in StoreAmounts, k \in {"vote", "identity"}}

\* The store-level specification works on one table per behaviour.
OthersEmpty(table) == \A u \in TableNames \ {table} : db[u] = {}

\* `if batch.is_empty() { return Ok(()) }`
StoreEmpty(table) ==
    /\ ~tx.open
    /\ OthersEmpty(table)
    /\ call' = [NoCall EXCEPT !.op = "store", !.table = table, !.result = "ok",
                              !.on_empty = (db[table] = {})]
    /\ UNCHANGED <<db, tx>>
    /\ UNCHANGED <<engineVars, restVars>>

\* A non-empty batch: `self.pool.begin().await?` succeeds.
StoreBegin(table) ==
    /\ ~tx.open
    /\ OthersEmpty(table)
    /\ tx' = [open |-> TRUE, table |-> table, batch |-> <<>>, pending |-> db[table],
              before |-> db[table]]
    /\ call' = NoCall
    /\ UNCHANGED db
    /\ UNCHANGED <<engineVars, restVars>>

\* pool.begin() fails: the call returns Err before any statement ran.
StoreBeginFails(table) ==
    /\ ~tx.open
    /\ OthersEmpty(table)
    /\ call' = [NoCall EXCEPT !.op = "store", !.table = table, !.result = "err",
                              !.before = db[table]]
    /\ UNCHANGED <<db, tx>>
    /\ UNCHANGED <<engineVars, restVars>>

\* One iteration of the loop: the INSERT OR REPLACE of the next element succeeds.
TxExecute ==
    /\ tx.open
    /\ Len(tx.batch) < MaxBatch
    /\ \E element \in StoreFacts(tx.table) :
          tx' = [tx EXCEPT !.pending = InsertOrReplace(tx.table, tx.pending,
                                                      BindRow(tx.table, element)),
                           !.batch = Append(tx.batch, element)]
    /\ UNCHANGED <<db, call>>
    /\ UNCHANGED <<engineVars, restVars>>

\* A statement or the commit fails: `?` returns Err, tx is dropped.
TxFails ==
    /\ tx.open
    /\ db' = [db EXCEPT ![tx.table] = Rollback(db[tx.table], tx.pending)]
    /\ call' = [NoCall EXCEPT !.op = "store", !.table = tx.table, !.args = tx.batch,
                              !.result = "err", !.before = tx.before]
    /\ tx' = NoTx
    /\ UNCHANGED <<engineVars, restVars>>

\* The loop is over and tx.commit() succeeds: the pending rows become the table.
TxCommit ==
    /\ tx.open
    /\ tx.batch # <<>>
    /\ db' = [db EXCEPT ![tx.table] = tx.pending]
    /\ call' = [NoCall EXCEPT !.op = "store", !.table = tx.table, !.args = tx.batch,
                              !.result = "ok", !.on_empty = (tx.before = {}),
                              !.replaced = (\E r \in tx.before : r \notin tx.pending)]
    /\ tx' = NoTx
    /\ UNCHANGED <<engineVars, restVars>>

\* The ranges the store-level specification reads: at most MaxBatch + 1 epochs.
StoreRanges == {se \in StoreEpochs \X StoreEpochs : se[2] - se[1] <= MaxBatch}

ReadOps == {"get_epoch_rewards", "get_missing_reward_epochs", "get_leader_fees",
            "get_missing_leader_fee_epochs"}

ReadTable(op) ==
    IF op \in {"get_epoch_rewards", "get_missing_reward_epochs"}
    THEN "epoch_rewards" ELSE "leader_fees"

\* The value a read returns on the committed table.
ReadOut(op, start_epoch, end_epoch) ==
    CASE op = "get_epoch_rewards" -> get_epoch_rewards(db["epoch_rewards"], start_epoch, end_epoch)
      [] op = "get_missing_reward_epochs" ->
            get_missing_reward_epochs(db["epoch_rewards"], start_epoch, end_epoch)
      [] op = "get_leader_fees" -> get_leader_fees(db["leader_fees"], start_epoch, end_epoch)
      [] op = "get_missing_leader_fee_epochs" ->
            get_missing_leader_fee_epochs(db["leader_fees"], start_epoch, end_epoch)

\* Did the call that returned last commit a batch into the empty table?
FreshlyStored(table) ==
    /\ call.op = "store"
    /\ call.result = "ok"
    /\ call.table = table
    /\ call.on_empty

\* A range read or a missing-key computation.
Read(op, start_epoch, end_epoch) ==
    /\ ~tx.open
    /\ OthersEmpty(ReadTable(op))
    /\ call' = [NoCall EXCEPT !.op = op, !.table = ReadTable(op),
                              !.args = <<start_epoch, end_epoch>>, !.result = "ok",
                              !.out = ReadOut(op, start_epoch, end_epoch),
                              !.fresh = FreshlyStored(ReadTable(op)),
                              !.stored = IF FreshlyStored(ReadTable(op))
                                         THEN call.args ELSE <<>>]
    /\ UNCHANGED <<db, tx>>
    /\ UNCHANGED <<engineVars, restVars>>

\* The query of a range read or a missing-key computation fails: Err, nothing returned.
ReadFails(op, start_epoch, end_epoch) ==
    /\ ~tx.open
    /\ OthersEmpty(ReadTable(op))
    /\ call' = [NoCall EXCEPT !.op = op, !.table = ReadTable(op),
                              !.args = <<start_epoch, end_epoch>>, !.result = "err"]
    /\ UNCHANGED <<db, tx>>
    /\ UNCHANGED <<engineVars, restVars>>

InitStore ==
    /\ db = EmptyDb
    /\ tx = NoTx
    /\ call = NoCall

(***************************************************************************)
(* Reconcilers (main.rs).  One invocation of fetch_rewards_with_cache,     *)
(* fetch_leader_fees_with_cache or fetch_mev_with_cache is a run; the      *)
(* fact types share no state (each has its own table), so a behaviour      *)
(* follows the repeated runs of one fact type.  A store call inside a run  *)
(* either commits its whole batch or fails and changes nothing.            *)
(***************************************************************************)
\* The table each reconciler reads and writes.
TableOf(f) ==
    CASE f = "rewards"     -> "epoch_rewards"
      [] f = "leader_fees" -> "leader_fees"
      [] f = "mev"         -> "mev_claims"

Epochs == 0..(MaxEpoch + 1)

Amounts == 0..MaxAmount

NoArgs == [start_epoch |-> 0, end_epoch |-> 0, current_epoch |-> 0, no_cache |-> FALSE,
           dune_api_key |-> FALSE]

NoDune == [calls |-> 0, outcome |-> "none", earliest |-> 0, start_date |-> 0, resp |-> <<>>]

\* let completed_end = end_epoch.min(current_epoch.saturating_sub(1));
CompletedEnd(end_epoch, current_epoch) == Min(end_epoch, SaturatingSub(current_epoch, 1))

\* The smallest epoch of a non-empty list: rpc_failures.iter().min().unwrap()
\* The latest failed epoch taken where the earliest is meant.
MinOf_Latest(s) == CHOOSE e \in Range(s) : \A q \in Range(s) : e >= q

MinOf(s) == CHOOSE e \in Range(s) : \A q \in Range(s) : e <= q

\* transactions::epoch_to_date: the day (format %Y-%m-%d, here the number of days
\* since 1970-01-01) of the reference timestamp moved by the epoch's distance from the
\* reference epoch.  The saturating operations act only near i64::MAX, far above the
\* epochs of the model.
REFERENCE_EPOCH == 896
REFERENCE_EPOCH_TIMESTAMP == 1765843200
EPOCH_DURATION_SECONDS == 172800
SecondsPerDay == 86400

\* The distance from the reference epoch taken in u64: the epochs before the reference
\* epoch all get the reference date.
epoch_to_date_Unsigned(epoch) ==
    (REFERENCE_EPOCH_TIMESTAMP
        + (IF epoch < REFERENCE_EPOCH THEN 0 ELSE epoch - REFERENCE_EPOCH)
            * EPOCH_DURATION_SECONDS) \div SecondsPerDay

epoch_to_date(epoch) ==
    (REFERENCE_EPOCH_TIMESTAMP + (epoch - REFERENCE_EPOCH) * EPOCH_DURATION_SECONDS)
        \div SecondsPerDay

\* A fallback that does not look at whether a Dune API key is configured.
prepare_dune_fallback_KeyIgnored(failures, dune_api_key) ==
    IF failures = <<>> THEN [some |-> FALSE, earliest |-> 0, start_date |-> 0]
    ELSE [some |-> TRUE, earliest |-> MinOf(failures),
          start_date |-> epoch_to_date(MinOf(failures))]

\* prepare_dune_fallback: Some((client, start_date)) iff some primary fetch failed and a
\* Dune API key is configured.
prepare_dune_fallback(failures, dune_api_key) ==
    IF failures = <<>> THEN [some |-> FALSE, earliest |-> 0, start_date |-> 0]
    ELSE IF dune_api_key
         THEN [some |-> TRUE, earliest |-> MinOf(failures),
               start_date |-> epoch_to_date(MinOf(failures))]
    ELSE [some |-> FALSE, earliest |-> 0, start_date |-> 0]

\* dune_rewards.into_iter().filter(|r| rpc_failures.contains(&r.epoch)).collect()
Needed(resp, failures) == SelectSeq(resp, LAMBDA r : r.epoch \in Range(failures))

\* A fallback that forgets the failed epochs Dune had no data for.
Unfilled_None(failures, needed) == <<>>

\* rpc_failures.iter().filter(|e| !filled_epochs.contains(e))
Unfilled(failures, needed) ==
    SelectSeq(failures, LAMBDA e : e \notin {r.epoch : r \in Range(needed)})

\* The answers an upstream source can give about a set of epochs: data (drawn from
\* values) for some of them, nothing for the others.
Answers(epochs, values) == UNION {[S -> values] : S \in SUBSET epochs}

\* The ascending list of the facts held for the epochs of [start_epoch, end_epoch],
\* facts being a function from the epochs with data to their fact.
Collect(facts, start_epoch, end_epoch) ==
    LET es == SelectSeq(RangeInclusive(start_epoch, end_epoch),
                        LAMBDA e : e \in DOMAIN facts)
    IN  [i \in 1..Len(es) |-> facts[es[i]]]

\* ---- inflation rewards ------------------------------------------------------

\* An EpochReward as fetch_inflation_rewards_internal builds it from the RPC reply.
RpcReward(epoch, amount) ==
    [epoch |-> epoch, amount_lamports |-> amount, commission |-> CommissionPercent,
     effective_slot |-> (epoch + 1) * SLOTS_PER_EPOCH]

\* An EpochReward as DuneClient::fetch_inflation_rewards builds it from a row.
DuneReward(epoch, amount) ==
    [epoch |-> epoch, amount_lamports |-> amount, commission |-> CommissionPercent,
     effective_slot |-> epoch * SLOTS_PER_EPOCH]

\* The zero-valued record cached for an epoch neither source had data for.
ZeroReward(epoch) ==
    [epoch |-> epoch, amount_lamports |-> 0, commission |-> CommissionPercent,
     effective_slot |-> epoch * SLOTS_PER_EPOCH]

\* fetch_inflation_rewards(config, start_epoch, Some(end_epoch)) given the replies of
\* the RPC node to its point queries: per epoch a reward, or nothing (null or an error).
fetch_inflation_rewards(reply, start_epoch, end_epoch) ==
    Collect([e \in DOMAIN reply |-> RpcReward(e, reply[e])], start_epoch, end_epoch)

\* The responses of a successful Dune bulk query: one row per epoch it has data for.
DuneRewardResponses ==
    {Collect([e \in DOMAIN answer |-> DuneReward(e, answer[e])], 0, MaxEpoch + 1)
        : answer \in Answers(Epochs, Amounts)}

\* A new invocation of the reconciler of one fact type.  The chain's current epoch
\* never decreases from one run to the next.
Invoke(f, start_epoch, end_epoch, current_epoch, no_cache, dune_api_key) ==
    /\ pc = "idle"
    /\ fact \in {"none", f}
    /\ current_epoch >= args.current_epoch
    /\ fact' = f
    /\ args' = [start_epoch |-> start_epoch, end_epoch |-> end_epoch,
                current_epoch |-> current_epoch, no_cache |-> no_cache,
                dune_api_key |-> dune_api_key]
    /\ pc' = "entry"
    /\ missing' = <<>>
    /\ pos' = 1
    /\ rpc_failures' = <<>>
    /\ result' = <<>>
    /\ ret' = "none"
    /\ queried' = {}
    /\ dune' = NoDune
    /\ jito_calls' = 0
    /\ rows0' = db[TableOf(f)]
    /\ UNCHANGED <<db, tx, call>>
    /\ block_errors' = {}
    /\ UNCHANGED restVars

\* The run ends: Ok(list) or, after a `?`, Err: r is "ok", "read_err" (a cache read
\* failed), "store_err" (a cache write failed) or "upstream_err".
Return(r, list) ==
    /\ pc' = "done"
    /\ ret' = r
    /\ result' = list

\* fetch_rewards_with_cache, no_cache: fetch the whole range, store it, return it.
RewardsNoCache ==
    /\ pc = "entry" /\ fact = "rewards" /\ args.no_cache
    /\ \/ \* get_epoch_info() fails inside fetch_inflation_rewards: `?`
          /\ Return("upstream_err", <<>>)
          /\ UNCHANGED <<db, queried>>
       \/ \E reply \in Answers(args.start_epoch..args.end_epoch, Amounts) :
             LET rewards == fetch_inflation_rewards(reply, args.start_epoch, args.end_epoch)
             IN  /\ queried' = args.start_epoch..args.end_epoch
                 /\ \/ /\ db' = [db EXCEPT !["epoch_rewards"] = store_epoch_rewards(@, rewards)]
                       /\ Return("ok", rewards)
                    \/ \* store_epoch_rewards fails: `?`
                       /\ rewards # <<>>
                       /\ UNCHANGED db
                       /\ Return("store_err", <<>>)
    /\ UNCHANGED <<tx, call, fact, args, missing, pos, rpc_failures, dune, jito_calls, rows0>>
    /\ UNCHANGED <<block_errors, restVars>>

\* fetch_rewards_with_cache, cached path up to the loop: read the cached rewards of the
\* completed range and compute the missing completed epochs.
RewardsStart ==
    /\ pc = "entry" /\ fact = "rewards" /\ ~args.no_cache
    /\ \/ LET completed_end == CompletedEnd(args.end_epoch, args.current_epoch)
          IN  /\ result' = get_epoch_rewards(db["epoch_rewards"], args.start_epoch,
                                             completed_end)
              /\ missing' = get_missing_reward_epochs(db["epoch_rewards"], args.start_epoch,
                                                      completed_end)
              /\ pos' = 1
              /\ pc' = IF missing' # <<>> THEN "primary" ELSE "current"
              /\ UNCHANGED ret
       \/ \* get_epoch_rewards or get_missing_reward_epochs fails: `?`
          /\ Return("read_err", <<>>)
          /\ UNCHANGED <<missing, pos>>
    /\ UNCHANGED <<db, tx, call, fact, args, rpc_failures, queried, dune, jito_calls, rows0>>
    /\ UNCHANGED <<block_errors, restVars>>

\* A primary failure that ends the loop over the missing epochs.
AfterFailure_Breaks(position, list) == "fallback"

\* Where the loop over the missing epochs goes after the Err(_) / empty arm: the arm
\* only pushes the epoch to rpc_failures, so the next missing epoch follows, or the
\* Dune fallback after the last one.
AfterFailure(position, list) == IF position = Len(list) THEN "fallback" ELSE "primary"

\* One iteration of `for epoch in &missing`: the point query of missing[pos] and, when
\* it returned a reward, its store.
RewardsPrimary ==
    /\ pc = "primary" /\ fact = "rewards"
    /\ LET epoch == missing[pos]
           next_pc == IF pos = Len(missing) THEN "fallback" ELSE "primary"
       IN  /\ queried' = queried \cup {epoch}
           /\ \/ \* Ok(fetched) if !fetched.is_empty(), stored
                 \E a \in Amounts :
                    LET fetched == <<RpcReward(epoch, a)>>
                    IN  \/ /\ db' = [db EXCEPT !["epoch_rewards"] = store_epoch_rewards(@, fetched)]
                           /\ result' = result \o fetched
                           /\ pos' = pos + 1
                           /\ pc' = next_pc
                           /\ UNCHANGED <<rpc_failures, ret>>
                        \/ \* store_epoch_rewards fails: `?`
                           /\ Return("store_err", <<>>)
                           /\ UNCHANGED <<db, pos, rpc_failures>>
              \/ \* Err(_) or Ok(empty): tracked for the Dune fallback
                 /\ rpc_failures' = Append(rpc_failures, epoch)
                 /\ pos' = pos + 1
                 /\ pc' = AfterFailure(pos, missing)
                 /\ UNCHANGED <<db, result, ret>>
    /\ UNCHANGED <<tx, call, fact, args, missing, dune, jito_calls, rows0>>
    /\ UNCHANGED <<block_errors, restVars>>

\* The Dune fallback of fetch_rewards_with_cache after the loop.
RewardsFallback ==
    /\ pc = "fallback" /\ fact = "rewards"
    /\ LET fb == prepare_dune_fallback(rpc_failures, args.dune_api_key)
       IN  IF ~fb.some
           THEN /\ pc' = "current"
                /\ UNCHANGED <<db, result, ret, dune>>
           ELSE \/ \* Err(e): warning only
                   /\ dune' = [calls |-> dune.calls + 1, outcome |-> "err",
                               earliest |-> fb.earliest, start_date |-> fb.start_date,
                               resp |-> <<>>]
                   /\ pc' = "current"
                   /\ UNCHANGED <<db, result, ret>>
                \/ \E resp \in DuneRewardResponses :
                      LET needed == Needed(resp, rpc_failures)
                          unfilled == [i \in 1..Len(Unfilled(rpc_failures, needed)) |->
                                          ZeroReward(Unfilled(rpc_failures, needed)[i])]
                          empty_epochs == [i \in 1..Len(rpc_failures) |->
                                              ZeroReward(rpc_failures[i])]
                          filled == store_epoch_rewards(db["epoch_rewards"], needed)
                      IN  /\ dune' = [calls |-> dune.calls + 1, outcome |-> "ok",
                                      earliest |-> fb.earliest,
                                      start_date |-> fb.start_date, resp |-> resp]
                          /\ IF needed # <<>>
                             THEN \/ \* both store calls succeed
                                     /\ db' = [db EXCEPT !["epoch_rewards"] =
                                                  store_epoch_rewards(filled, unfilled)]
                                     /\ result' = result \o needed
                                     /\ pc' = "current"
                                     /\ UNCHANGED ret
                                  \/ \* store_epoch_rewards(&needed) fails: `?`
                                     /\ UNCHANGED db
                                     /\ Return("store_err", <<>>)
                                  \/ \* store_epoch_rewards(&unfilled) fails: `?`
                                     /\ unfilled # <<>>
                                     /\ db' = [db EXCEPT !["epoch_rewards"] = filled]
                                     /\ Return("store_err", <<>>)
                             ELSE \/ /\ db' = [db EXCEPT !["epoch_rewards"] =
                                                  store_epoch_rewards(@, empty_epochs)]
                                     /\ pc' = "current"
                                     /\ UNCHANGED <<result, ret>>
                                  \/ \* store_epoch_rewards(&empty_epochs) fails: `?`
                                     /\ UNCHANGED db
                                     /\ Return("store_err", <<>>)
    /\ UNCHANGED <<tx, call, fact, args, missing, pos, rpc_failures, queried, jito_calls, rows0>>
    /\ UNCHANGED <<block_errors, restVars>>

\* The live fetch of the current epoch (never stored), the sort and the return.
RewardsCurrent ==
    /\ pc = "current" /\ fact = "rewards"
    /\ IF args.end_epoch >= args.current_epoch
       THEN /\ queried' = queried \cup {args.current_epoch}
            /\ \/ \* if let Ok(current_rewards): a reward
                  \E a \in Amounts :
                     Return("ok", SortByKeyEpoch(result \o <<RpcReward(args.current_epoch, a)>>))
               \/ \* Err(_), or Ok with no reward yet
                  Return("ok", SortByKeyEpoch(result))
       ELSE /\ Return("ok", SortByKeyEpoch(result))
            /\ UNCHANGED queried
    /\ UNCHANGED <<db, tx, call, fact, args, missing, pos, rpc_failures, dune, jito_calls, rows0>>
    /\ UNCHANGED <<block_errors, restVars>>

\* ---- leader fees -----------------------------------------------------------

\* The replies of the RPC node about one leader slot: a block with a fee reward, or no
\* fee (Ok(None): skipped block; Err: block unavailable), which the caller ignores.
BlockReplies ==
    {[produced |-> TRUE, fee |-> a, err |-> FALSE] : a \in Amounts}
    \cup {[produced |-> FALSE, fee |-> 0, err |-> e] : e \in BOOLEAN}

\* The epochs of a reply with an Err on one of their block queries.
BlockErrors(reply) ==
    {e \in DOMAIN reply : \E i \in 1..Len(reply[e]) : reply[e][i].err}

\* The leader schedules of one epoch with the reply for each slot: 0..MaxSlots slots.
Schedules == UNION {[1..n -> BlockReplies] : n \in 0..MaxSlots}

\* total_fees and blocks_produced as the loop over the leader slots accumulates them.
RECURSIVE SumFees(_)
SumFees(slots) ==
    IF slots = <<>> THEN 0
    ELSE (IF Head(slots).produced THEN Head(slots).fee ELSE 0) + SumFees(Tail(slots))

BlocksProduced(slots) == Len(SelectSeq(slots, LAMBDA b : b.produced))

\* fetch_epoch_leader_fees once get_leader_schedule has answered.
fetch_epoch_leader_fees(epoch, slots) ==
    IF slots = <<>>
    THEN [epoch |-> epoch, leader_slots |-> 0, blocks_produced |-> 0, skipped_slots |-> 0,
          total_fees_lamports |-> 0]
    ELSE [epoch |-> epoch, leader_slots |-> Len(slots),
          blocks_produced |-> BlocksProduced(slots),
          skipped_slots |-> Len(slots) - BlocksProduced(slots),
          total_fees_lamports |-> SumFees(slots)]

\* leader_fees::fetch_leader_fees(config, start_epoch, Some(end_epoch)) once
\* get_current_epoch has answered: reply holds the schedule of each epoch whose
\* get_leader_schedule succeeded; epochs without leader slots are left out.
fetch_leader_fees(reply, start_epoch, end_epoch) ==
    SelectSeq(Collect([e \in DOMAIN reply |-> fetch_epoch_leader_fees(e, reply[e])],
                      start_epoch, end_epoch),
              LAMBDA f : f.leader_slots > 0)

\* An EpochLeaderFees as DuneClient::fetch_leader_fees builds it from a row.
DuneFees(epoch, row) ==
    [epoch |-> epoch, leader_slots |-> row.blocks_produced,
     blocks_produced |-> row.blocks_produced, skipped_slots |-> 0,
     total_fees_lamports |-> row.total_fees]

\* The rows of a Dune leader-fee response: COUNT(*) >= 1 blocks and their fees.
DuneFeeRows == [blocks_produced : 1..MaxSlots, total_fees : Amounts]

DuneFeeResponses ==
    {Collect([e \in DOMAIN answer |-> DuneFees(e, answer[e])], 0, MaxEpoch + 1)
        : answer \in Answers(Epochs, DuneFeeRows)}

\* The zero-valued record cached for an epoch neither source had data for.
ZeroFees(epoch) ==
    [epoch |-> epoch, leader_slots |-> 0, blocks_produced |-> 0, skipped_slots |-> 0,
     total_fees_lamports |-> 0]

\* .filter(|f| f.epoch < current_epoch): only completed epochs are cached.
Completed(list, current_epoch) == SelectSeq(list, LAMBDA f : f.epoch < current_epoch)

\* fetch_leader_fees_with_cache, no_cache: fetch the whole range, store its completed
\* epochs, return all of it.
FeesNoCache ==
    /\ pc = "entry" /\ fact = "leader_fees" /\ args.no_cache
    /\ \/ \* get_current_epoch fails inside fetch_leader_fees: `?`
          /\ Return("upstream_err", <<>>)
          /\ UNCHANGED <<db, queried>>
       \/ \E reply \in Answers(args.start_epoch..args.end_epoch, Schedules) :
             LET fees == fetch_leader_fees(reply, args.start_epoch, args.end_epoch)
                 completed == Completed(fees, args.current_epoch)
             IN  /\ queried' = args.start_epoch..args.end_epoch
                 /\ \/ /\ db' = [db EXCEPT !["leader_fees"] = store_leader_fees(@, completed)]
                       /\ Return("ok", fees)
                    \/ \* store_leader_fees fails: `?`
                       /\ completed # <<>>
                       /\ UNCHANGED db
                       /\ Return("store_err", <<>>)
    /\ UNCHANGED <<tx, call, fact, args, missing, pos, rpc_failures, dune, jito_calls, rows0>>
    /\ UNCHANGED <<block_errors, restVars>>

\* fetch_leader_fees_with_cache, cached path up to the loop.
FeesStart ==
    /\ pc = "entry" /\ fact = "leader_fees" /\ ~args.no_cache
    /\ \/ LET completed_end == CompletedEnd(args.end_epoch, args.current_epoch)
          IN  /\ result' = get_leader_fees(db["leader_fees"], args.start_epoch, completed_end)
              /\ missing' = get_missing_leader_fee_epochs(db["leader_fees"],
                                                          args.start_epoch, completed_end)
              /\ pos' = 1
              /\ pc' = IF missing' # <<>> THEN "primary" ELSE "current"
              /\ UNCHANGED ret
       \/ \* get_leader_fees or get_missing_leader_fee_epochs fails: `?`
          /\ Return("read_err", <<>>)
          /\ UNCHANGED <<missing, pos>>
    /\ UNCHANGED <<db, tx, call, fact, args, rpc_failures, queried, dune, jito_calls, rows0>>
    /\ UNCHANGED <<block_errors, restVars>>

\* One iteration of `for epoch in &missing`: fetch_leader_fees(config, epoch, Some(epoch))
\* and, when it returned the epoch's fees, the store of the completed ones.
FeesPrimary ==
    /\ pc = "primary" /\ fact = "leader_fees"
    /\ LET epoch == missing[pos]
           next_pc == IF pos = Len(missing) THEN "fallback" ELSE "primary"
       IN  /\ queried' = queried \cup {epoch}
           /\ \/ \* Err(_): get_current_epoch failed; tracked for the Dune fallback
                 /\ rpc_failures' = Append(rpc_failures, epoch)
                 /\ pos' = pos + 1
                 /\ pc' = AfterFailure(pos, missing)
                 /\ UNCHANGED <<db, result, ret, block_errors>>
              \/ \E reply \in Answers({epoch}, Schedules) :
                    LET fetched == fetch_leader_fees(reply, epoch, epoch)
                        completed == Completed(fetched, args.current_epoch)
                    IN  /\ block_errors' = block_errors \cup BlockErrors(reply)
                        /\ IF fetched # <<>>
                           THEN \/ /\ db' = [db EXCEPT !["leader_fees"] =
                                                store_leader_fees(@, completed)]
                                   /\ result' = result \o fetched
                                   /\ pos' = pos + 1
                                   /\ pc' = next_pc
                                   /\ UNCHANGED <<rpc_failures, ret>>
                                \/ \* store_leader_fees fails: `?`
                                   /\ completed # <<>>
                                   /\ Return("store_err", <<>>)
                                   /\ UNCHANGED <<db, pos, rpc_failures>>
                           ELSE \* Ok(empty): tracked for the Dune fallback
                                /\ rpc_failures' = Append(rpc_failures, epoch)
                                /\ pos' = pos + 1
                                /\ pc' = AfterFailure(pos, missing)
                                /\ UNCHANGED <<db, result, ret>>
    /\ UNCHANGED <<tx, call, fact, args, missing, dune, jito_calls, rows0>>
    /\ UNCHANGED restVars

\* The Dune fallback of fetch_leader_fees_with_cache after the loop.
FeesFallback ==
    /\ pc = "fallback" /\ fact = "leader_fees"
    /\ LET fb == prepare_dune_fallback(rpc_failures, args.dune_api_key)
       IN  IF ~fb.some
           THEN /\ pc' = "current"
                /\ UNCHANGED <<db, result, ret, dune>>
           ELSE \/ \* Err(e): warning only
                   /\ dune' = [calls |-> dune.calls + 1, outcome |-> "err",
                               earliest |-> fb.earliest, start_date |-> fb.start_date,
                               resp |-> <<>>]
                   /\ pc' = "current"
                   /\ UNCHANGED <<db, result, ret>>
                \/ \E resp \in DuneFeeResponses :
                      LET needed == Needed(resp, rpc_failures)
                          unfilled == [i \in 1..Len(Unfilled(rpc_failures, needed)) |->
                                          ZeroFees(Unfilled(rpc_failures, needed)[i])]
                          empty_epochs == [i \in 1..Len(rpc_failures) |->
                                              ZeroFees(rpc_failures[i])]
                          filled == store_leader_fees(db["leader_fees"], needed)
                      IN  /\ dune' = [calls |-> dune.calls + 1, outcome |-> "ok",
                                      earliest |-> fb.earliest,
                                      start_date |-> fb.start_date, resp |-> resp]
                          /\ IF needed # <<>>
                             THEN \/ \* both store calls succeed
                                     /\ db' = [db EXCEPT !["leader_fees"] =
                                                  store_leader_fees(filled, unfilled)]
                                     /\ result' = result \o needed
                                     /\ pc' = "current"
                                     /\ UNCHANGED ret
                                  \/ \* store_leader_fees(&needed) fails: `?`
                                     /\ UNCHANGED db
                                     /\ Return("store_err", <<>>)
                                  \/ \* store_leader_fees(&unfilled) fails: `?`
                                     /\ unfilled # <<>>
                                     /\ db' = [db EXCEPT !["leader_fees"] = filled]
                                     /\ Return("store_err", <<>>)
                             ELSE \/ /\ db' = [db EXCEPT !["leader_fees"] =
                                                  store_leader_fees(@, empty_epochs)]
                                     /\ pc' = "current"
                                     /\ UNCHANGED <<result, ret>>
                                  \/ \* store_leader_fees(&empty_epochs) fails: `?`
                                     /\ UNCHANGED db
                                     /\ Return("store_err", <<>>)
    /\ UNCHANGED <<tx, call, fact, args, missing, pos, rpc_failures, queried, jito_calls, rows0>>
    /\ UNCHANGED <<block_errors, restVars>>

\* The live fetch of the current epoch (never stored), the sort and the return.
FeesCurrent ==
    /\ pc = "current" /\ fact = "leader_fees"
    /\ IF args.end_epoch >= args.current_epoch
       THEN /\ queried' = queried \cup {args.current_epoch}
            /\ \/ \* if let Ok(current_fees)
                  \E reply \in Answers({args.current_epoch}, Schedules) :
                     Return("ok", SortByKeyEpoch(result \o
                               fetch_leader_fees(reply, args.current_epoch, args.current_epoch)))
               \/ \* Err(_)
                  Return("ok", SortByKeyEpoch(result))
       ELSE /\ Return("ok", SortByKeyEpoch(result))
            /\ UNCHANGED queried
    /\ UNCHANGED <<db, tx, call, fact, args, missing, pos, rpc_failures, dune, jito_calls, rows0>>
    /\ UNCHANGED <<block_errors, restVars>>

\* ---- MEV claims ------------------------------------------------------------

\* The per-epoch entries of a Jito API response: total tips and the commission rate
\* in basis points.
JitoEpochData == [mev_rewards : Amounts, mev_commission_bps : {0, BpsDenominator}]

\* process_jito_epochs: the MevClaim of one entry.
JitoClaim(epoch, data) ==
    [epoch |-> epoch, total_tips_lamports |-> data.mev_rewards,
     commission_lamports |-> (data.mev_rewards * data.mev_commission_bps) \div BpsDenominator]

\* The results of a successful jito::fetch_mev_claims: every epoch the API has MEV data
\* for, sorted by epoch.
JitoResponses ==
    {Collect([e \in DOMAIN answer |-> JitoClaim(e, answer[e])], 0, MaxEpoch + 1)
        : answer \in Answers(Epochs, JitoEpochData)}

\* A recency test that accepts a claim of completed_end only.
HasRecentData_Strict(claims, completed_end) ==
    \E i \in 1..Len(claims) : claims[i].epoch >= completed_end

\* claims.iter().any(|c| c.epoch >= completed_end.saturating_sub(1))
HasRecentData(claims, completed_end) ==
    \E i \in 1..Len(claims) : claims[i].epoch >= SaturatingSub(completed_end, 1)

\* .filter(|c| c.epoch >= start_epoch && c.epoch <= end_epoch)
InRequestedRange(claims, start_epoch, end_epoch) ==
    SelectSeq(claims, LAMBDA c : c.epoch >= start_epoch /\ c.epoch <= end_epoch)

\* fetch_mev_with_cache, no_cache: fetch everything Jito has, store it, return it.
MevNoCache ==
    /\ pc = "entry" /\ fact = "mev" /\ args.no_cache
    /\ jito_calls' = jito_calls + 1
    /\ \/ \* fetch_mev_claims fails after its retries: `?`
          /\ Return("upstream_err", <<>>)
          /\ UNCHANGED db
       \/ \E claims \in JitoResponses :
             \/ /\ db' = [db EXCEPT !["mev_claims"] = store_mev_claims(@, claims)]
                /\ Return("ok", claims)
             \/ \* store_mev_claims fails: `?`
                /\ claims # <<>>
                /\ UNCHANGED db
                /\ Return("store_err", <<>>)
    /\ UNCHANGED <<tx, call, fact, args, missing, pos, rpc_failures, queried, dune, rows0>>
    /\ UNCHANGED <<block_errors, restVars>>

\* fetch_mev_with_cache, cached path: the cached claims of the completed range, and a
\* call to Jito only when none of them is recent.
MevCached ==
    /\ pc = "entry" /\ fact = "mev" /\ ~args.no_cache
    /\ \/ \* get_mev_claims fails: `?`
          /\ Return("read_err", <<>>)
          /\ UNCHANGED <<db, jito_calls>>
       \/ LET completed_end == CompletedEnd(args.end_epoch, args.current_epoch)
              claims == get_mev_claims(db["mev_claims"], args.start_epoch, completed_end)
          IN  IF HasRecentData(claims, completed_end)
              THEN /\ Return("ok", SortByKeyEpoch(claims))
                   /\ UNCHANGED <<db, jito_calls>>
              ELSE /\ jito_calls' = jito_calls + 1
                   /\ \/ \* fetch_mev_claims fails after its retries: `?`
                         /\ Return("upstream_err", <<>>)
                         /\ UNCHANGED db
                      \/ \E fresh_claims \in JitoResponses :
                            LET completed == Completed(fresh_claims, args.current_epoch)
                            IN  \/ /\ db' = [db EXCEPT !["mev_claims"] =
                                                store_mev_claims(@, completed)]
                                   /\ Return("ok", SortByKeyEpoch(InRequestedRange(
                                          fresh_claims, args.start_epoch, args.end_epoch)))
                                \/ \* store_mev_claims fails: `?`
                                   /\ completed # <<>>
                                   /\ UNCHANGED db
                                   /\ Return("store_err", <<>>)
    /\ UNCHANGED <<tx, call, fact, args, missing, pos, rpc_failures, queried, dune, rows0>>
    /\ UNCHANGED <<block_errors, restVars>>

\* The caller has taken the returned list (or the error); the locals of the run are
\* gone and the next invocation can start.
Finish ==
    /\ pc = "done"
    /\ pc' = "idle"
    /\ args' = [NoArgs EXCEPT !.current_epoch = args.current_epoch]
    /\ missing' = <<>>
    /\ pos' = 1
    /\ rpc_failures' = <<>>
    /\ result' = <<>>
    /\ ret' = "none"
    /\ queried' = {}
    /\ dune' = NoDune
    /\ jito_calls' = 0
    /\ rows0' = {}
    /\ UNCHANGED <<db, tx, call, fact>>
    /\ block_errors' = {}
    /\ UNCHANGED restVars

\* Option<T>: None, Some(v).
None == <<>>

Some(v) == <<v>>

\* No run of the transfer reconciler is in progress.  cached holds the transfers the
\* store held when the run was invoked, returned the transfers the upstream sources
\* have returned to the run so far, each with the account it was returned for,
\* retries_exhausted that the page requests of a scan of the run failed max_retries
\* times in a row.
NoTransferRun ==
    [pc |-> "idle", no_cache |-> FALSE, dune_api_key |-> FALSE, account |-> 1,
     all_transfers |-> <<>>, seen_signatures |-> {}, rpc_failed |-> FALSE,
     dune_calls |-> 0, ret |-> "none", runs |-> 0, cached |-> {}, returned |-> {},
     retries_exhausted |-> FALSE]

\* No scan of an account is in progress.
NoScan ==
    [label |-> "none", stop_at_slot |-> None, history |-> {}, signatures |-> <<>>,
     before |-> None, retries |-> 0, highest_slot_seen |-> None,
     stopped_at_cached |-> FALSE, transfers |-> <<>>, observed |-> <<>>,
     pages |-> 0, persisted |-> FALSE, tx_tries |-> <<>>, fetched |-> {}]

\* categorize_transfers has not returned.
NoCategorized ==
    [seeding |-> <<>>, sfdp_reimbursements |-> <<>>, mev_deposits |-> <<>>,
     vote_funding |-> <<>>, withdrawals |-> <<>>, other |-> <<>>, returned |-> FALSE]

\* run_report_generation has not been entered.
NoReport == [step |-> "idle", no_cache |-> FALSE, outcome |-> <<>>, status |-> "none"]

\* No walk over a range is in progress.
NoWalk ==
    [pc |-> "idle", fact |-> "none", no_cache |-> FALSE, current_epoch |-> 0,
     epochs |-> <<>>, pos |-> 1, pending |-> <<>>, attempted |-> <<>>, fetched |-> {},
     written |-> {}, ret |-> "none"]

\* No request to an upstream source is in progress.
NoRequest ==
    [pc |-> "idle", call |-> "none", attempt |-> 0, was_rate_limited |-> FALSE,
     delays |-> <<>>, replies |-> <<>>, elapsed |-> 0, sent_at |-> 0, ret |-> "none"]

\* No command of the CLI (leader-slots import, vote-costs import or estimate) is in
\* progress.
NoCmd ==
    [pc |-> "idle", command |-> "none", range |-> <<>>, before |-> {}, batch |-> <<>>,
     ret |-> "none"]

\* The variables of the transfer reconciler, of categorize_transfers, of the report
\* run, of the walk and of the commands before any of them has run.
InitRest ==
    /\ account_progress = {}
    /\ transfer_run = NoTransferRun
    /\ account_scan = NoScan
    /\ transfers = <<>>
    /\ categorized = NoCategorized
    /\ report = NoReport
    /\ walk = NoWalk
    /\ cmd = NoCmd
    /\ upstream = NoRequest

InitEngine ==
    /\ fact = "none"
    /\ pc = "idle"
    /\ args = NoArgs
    /\ missing = <<>>
    /\ pos = 1
    /\ rpc_failures = <<>>
    /\ result = <<>>
    /\ ret = "none"
    /\ queried = {}
    /\ dune = NoDune
    /\ jito_calls = 0
    /\ rows0 = {}
    /\ block_errors = {}

Init ==
    /\ InitStore
    /\ InitEngine
    /\ InitRest

FactTypes == {"rewards", "leader_fees", "mev"}

Next ==
    \/ \E f \in FactTypes, s \in 0..MaxEpoch, e \in Epochs, c \in Epochs, nc \in BOOLEAN,
          key \in BOOLEAN : Invoke(f, s, e, c, nc, key)
    \/ RewardsNoCache
    \/ RewardsStart
    \/ RewardsPrimary
    \/ RewardsFallback
    \/ RewardsCurrent
    \/ FeesNoCache
    \/ FeesStart
    \/ FeesPrimary
    \/ FeesFallback
    \/ FeesCurrent
    \/ MevNoCache
    \/ MevCached
    \/ Finish

Spec == Init /\ [][Next]_vars

(***************************************************************************)
(* The store-level specification: cache calls in isolation.                *)
(***************************************************************************)
NextStore ==
    \/ \E table \in TableNames : StoreEmpty(table)
    \/ \E table \in TableNames : StoreBegin(table)
    \/ \E table \in TableNames : StoreBeginFails(table)
    \/ TxExecute
    \/ TxFails
    \/ TxCommit
    \/ \E op \in ReadOps : \E se \in StoreRanges : Read(op, se[1], se[2])
    \/ \E op \in ReadOps : \E se \in StoreRanges : ReadFails(op, se[1], se[2])

SpecStore == Init /\ [][NextStore]_vars

(***************************************************************************)
(* Properties of the ledger store, checked under SpecStore.                *)
(***************************************************************************)
\* Does the table hold a row for the (unsigned) epoch e?
HasRow(rows, e) == \E r \in rows : AsU64(r.epoch) = e

\* The epochs of [start_epoch, end_epoch] without a row, ascending.
EpochsWithoutRow(rows, start_epoch, end_epoch) ==
    SelectSeq(RangeInclusive(start_epoch, end_epoch), LAMBDA e : ~HasRow(rows, e))

\* The range [start_epoch, end_epoch] crosses the sign boundary of the i64 column.
Straddles(start_epoch, end_epoch) == start_epoch < I64Sign /\ end_epoch >= I64Sign

MissingOps == {"get_missing_reward_epochs", "get_missing_leader_fee_epochs"}

\* The epochs the matching range read returns for the arguments of a missing-key call.
RangeReadEpochs(op, start_epoch, end_epoch) ==
    IF op = "get_missing_reward_epochs"
    THEN {f.epoch : f \in Range(get_epoch_rewards(db["epoch_rewards"], start_epoch, end_epoch))}
    ELSE {f.epoch : f \in Range(get_leader_fees(db["leader_fees"], start_epoch, end_epoch))}

\* What C7 states of a missing-key call that returned for [start_epoch, end_epoch].
MissingIsExact ==
    /\ call.out = EpochsWithoutRow(db[call.table], call.args[1], call.args[2])
    /\ \A e \in call.args[1]..call.args[2] :
          (e \in Range(call.out)) # (e \in RangeReadEpochs(call.op, call.args[1], call.args[2]))

\* C7 (as stated): for every store state and every start <= end, get_missing_* returns,
\* ascending, exactly the epochs of the range that have no row, and every epoch of the
\* range is in exactly one of the range-read result and the missing list.
C7_AsStated ==
    (call.op \in MissingOps /\ call.result = "ok" /\ call.args[1] <= call.args[2])
        => MissingIsExact

\* Away from the sign boundary of the signed 64-bit epoch column (ranges with
\* start <= i64::MAX < end excluded) the missing-key calls are exact.
C7_MissingExact ==
    (/\ call.op \in MissingOps
     /\ call.result = "ok"
     /\ call.args[1] <= call.args[2]
     /\ ~Straddles(call.args[1], call.args[2])) => MissingIsExact

\* C7 witness: a missing-key call over a two-epoch range in which one epoch holds a
\* zero-valued negative record and is not returned, and the other epoch is returned.
C7_Witness ==
    /\ call.op = "get_missing_reward_epochs"
    /\ call.result = "ok"
    /\ call.args[1] < call.args[2]
    /\ ~Straddles(call.args[1], call.args[2])
    /\ call.out # <<>>
    /\ \E r \in db["epoch_rewards"] :
          /\ r.amount_lamports = 0
          /\ AsU64(r.epoch) \in call.args[1]..call.args[2]
          /\ AsU64(r.epoch) \notin Range(call.out)

\* C8: a store call is all-or-nothing: while its transaction is open the table is as it
\* was when the call began, and when the call returns an error the table is exactly as
\* it was before the call.
C8_StoreAtomic ==
    /\ tx.open => db[tx.table] = tx.before
    /\ (call.op = "store" /\ call.result = "err") => db[call.table] = call.before

\* C8 witness: a store call failed after statements of its batch had executed that would
\* have changed the table.
C8_Witness ==
    /\ call.op = "store"
    /\ call.result = "err"
    /\ call.args # <<>>
    /\ ExecuteAll(call.table, call.before, call.args) # call.before

\* The last element of the batch with the primary key of batch[i] is batch[i] itself.
LastWritten(table, batch, i) ==
    \A j \in (i + 1)..Len(batch) :
        PrimaryKey(table, BindRow(table, batch[j])) # PrimaryKey(table, BindRow(table, batch[i]))

\* C9: after a committed store call the table holds one row per primary key, the row of
\* every key of the batch is the one written last, and storing the same batch once more
\* leaves the table as it is.
C9_Upsert ==
    (call.op = "store" /\ call.result = "ok") =>
        /\ \A r, q \in db[call.table] :
              PrimaryKey(call.table, r) = PrimaryKey(call.table, q) => r = q
        /\ \A i \in 1..Len(call.args) :
              LastWritten(call.table, call.args, i) => BindRow(call.table, call.args[i]) \in db[call.table]
        /\ ExecuteAll(call.table, db[call.table], call.args) = db[call.table]

\* C9 witness: a committed store call replaced a row the table already held.
C9_Witness ==
    /\ call.op = "store"
    /\ call.result = "ok"
    /\ call.table \in {"epoch_rewards", "leader_fees"}
    /\ call.replaced

\* The facts of a batch in ascending (unsigned) epoch order.
AscendingByEpoch(batch) == OrderByEpoch(Range(batch))

\* A batch of one fact per epoch, all epochs in [start_epoch, end_epoch].
OnePerEpochWithin(batch, start_epoch, end_epoch) ==
    /\ \A i, j \in 1..Len(batch) : batch[i].epoch = batch[j].epoch => i = j
    /\ \A i \in 1..Len(batch) : start_epoch <= batch[i].epoch /\ batch[i].epoch <= end_epoch

\* C10 (as stated): a batch of N facts, one per epoch, all within [start, end], written
\* to the empty table and read back over [start, end] comes back as exactly those N
\* facts in ascending epoch order with identical integer fields.
C10_AsStated ==
    (/\ call.op = "get_epoch_rewards"
     /\ call.fresh
     /\ OnePerEpochWithin(call.stored, call.args[1], call.args[2]))
        => call.out = AscendingByEpoch(call.stored)

\* For ranges [start, end] that do not cross the sign boundary of the signed 64-bit
\* epoch column the round trip is exact.
C10_RoundTrip ==
    (/\ call.op = "get_epoch_rewards"
     /\ call.fresh
     /\ ~Straddles(call.args[1], call.args[2])
     /\ OnePerEpochWithin(call.stored, call.args[1], call.args[2]))
        => call.out = AscendingByEpoch(call.stored)

\* C10 witness: two facts, written in descending epoch order, one with an amount above
\* i64::MAX, are read back over their range.
C10_Witness ==
    /\ call.op = "get_epoch_rewards"
    /\ call.fresh
    /\ ~Straddles(call.args[1], call.args[2])
    /\ Len(call.stored) = 2
    /\ OnePerEpochWithin(call.stored, call.args[1], call.args[2])
    /\ call.stored[1].epoch > call.stored[2].epoch
    /\ call.stored[1].amount_lamports > I64Sign
    /\ Len(call.out) = 2

(***************************************************************************)
(* Properties of the reconcilers, checked under Spec.                      *)
(***************************************************************************)

\* The rows of the table of the running reconciler.
Table == db[TableOf(fact)]

Running == pc # "idle"

\* The run goes through the cache (no_cache unset).
CachedRun == Running /\ ~args.no_cache

\* The missing-key call of the running reconciler over [start_epoch, end_epoch].
GetMissing(start_epoch, end_epoch) ==
    IF fact = "rewards"
    THEN get_missing_reward_epochs(Table, start_epoch, end_epoch)
    ELSE get_missing_leader_fee_epochs(Table, start_epoch, end_epoch)

\* The row the store holds for a fact of the running reconciler.
RowOf(f) ==
    CASE fact = "rewards"     -> RewardToRow(f)
      [] fact = "leader_fees" -> FeesToRow(f)
      [] fact = "mev"         -> MevToRow(f)

\* The zero-valued negative record of the running reconciler for an epoch.
ZeroRow(e) == IF fact = "rewards" THEN RewardToRow(ZeroReward(e)) ELSE FeesToRow(ZeroFees(e))

\* C1: in any run, with or without no_cache, for rewards, leader fees and MEV claims, no
\* row whose epoch is >= current_epoch is written to the store, whatever the upstream
\* sources return.
C1_NoVolatileRowWritten ==
    Running => \A r \in Table \ rows0 : AsU64(r.epoch) < args.current_epoch

\* C2: for rewards and leader fees, when no secondary source is configured or its bulk
\* query returned an error, no row (data or negative record) is written for any epoch of
\* the primary failure set, and get_missing returns every such epoch on the next call
\* over the same range, at the same or any later current epoch.
C2_IndeterminateStaysMissing ==
    (/\ CachedRun
     /\ fact \in {"rewards", "leader_fees"}
     /\ (~args.dune_api_key \/ dune.outcome = "err")) =>
        \A e \in Range(rpc_failures) :
            /\ ~HasRow(Table, e)
            /\ \A c \in Epochs :
                  c >= args.current_epoch =>
                      e \in Range(GetMissing(args.start_epoch, CompletedEnd(args.end_epoch, c)))

\* C2 witness: a leader-fee run ended after two primary failures and a failed Dune query.
C2_Witness ==
    /\ pc = "done" /\ ret = "ok"
    /\ fact = "leader_fees"
    /\ ~args.no_cache
    /\ Len(rpc_failures) = 2
    /\ dune.outcome = "err"

\* What C3 states of the store after a successful secondary bulk query.
FailureSetFilled ==
    /\ \A e \in Range(rpc_failures) :
          IF \E i \in 1..Len(dune.resp) : dune.resp[i].epoch = e
          THEN \E i \in 1..Len(dune.resp) :
                  dune.resp[i].epoch = e /\ RowOf(dune.resp[i]) \in Table
          ELSE ZeroRow(e) \in Table
    /\ \A r, q \in Table : r.epoch = q.epoch => r = q
    /\ GetMissing(args.start_epoch, CompletedEnd(args.end_epoch, args.current_epoch)) = <<>>

C4_CacheHit ==
    (CachedRun /\ fact \in {"rewards", "leader_fees"}) =>
        \A e \in queried : ~(e < args.current_epoch /\ HasRow(rows0, e))

\* C4 witness: a later run over a range with a cached completed epoch and a missing one
\* ended having queried the missing one only.
C4_Witness ==
    /\ pc = "done" /\ ret = "ok"
    /\ fact = "rewards"
    /\ ~args.no_cache
    /\ \E e \in args.start_epoch..args.end_epoch :
          e < args.current_epoch /\ HasRow(rows0, e) /\ e \notin queried
    /\ \E e \in queried : e < args.current_epoch

\* The epochs of [start_epoch, end_epoch] with an MEV row at the start of the run.
CachedMevEpochs(start_epoch, end_epoch) ==
    {e \in start_epoch..end_epoch : HasRow(rows0, e)}

\* A cached run of the MEV reconciler ended, its cache read having succeeded.
MevRunEnded == pc = "done" /\ fact = "mev" /\ ~args.no_cache /\ ret # "read_err"

CompletedRowsKept == \A r \in rows0 : AsU64(r.epoch) < args.current_epoch => r \in Table

\* C6 (as stated): with no_cache unset, a run never changes the stored values of a row
\* that existed for a completed epoch at the start of the run, for rewards, leader fees
\* and MEV claims.
C6_AsStated == CachedRun => CompletedRowsKept

\* C6 (amended): with no_cache unset, a run of the reward or leader-fee reconciler never
\* changes a row that existed for a completed epoch at the start of the run, and neither
\* does a run of the MEV reconciler that makes no Jito call.
C6_CompletedRowsImmutable ==
    (CachedRun /\ (fact = "mev" => jito_calls = 0)) => CompletedRowsKept

\* C6 witness: a cached reward run that started with a row for a completed epoch ended
\* having written other rows.
C6_Witness ==
    /\ pc = "done" /\ ret = "ok"
    /\ fact = "rewards"
    /\ ~args.no_cache
    /\ \E r \in rows0 : AsU64(r.epoch) < args.current_epoch
    /\ Table # rows0

(***************************************************************************)
(* Transfer reconciler: fetch_transfers_with_cache (main.rs) over          *)
(* fetch_transfers_for_account and fetch_sol_transfers (transactions.rs),  *)
(* the sol_transfers and account_progress tables (cache.rs).               *)
(*                                                                         *)
(* The chain holds the transactions 1..MaxSig; the signature of a          *)
(* transaction is its number and a later transaction has a larger number   *)
(* and a larger slot.  What an RPC node lists for an account during one    *)
(* scan (history) is any set of these transactions, newest first, in pages *)
(* of at most PageLimit entries.                                           *)
(***************************************************************************)
\* Transactions of the chain.
MaxSig == 3
\* Entries per page of getSignaturesForAddress: stand-in for `limit: Some(100)`.
PageLimit == 2
\* constants::MAX_SIGNATURES_PER_ACCOUNT (2000), scaled to the chain of the model.
MAX_SIGNATURES_PER_ACCOUNT == 2
\* let max_retries = 3;
MaxRetries == 3
\* Runs of the transfer reconciler in one behaviour.
MaxRuns == 2

Sigs == 1..MaxSig

\* The slot of the transaction with signature sig.
SlotOf(sig) == sig

Max(a, b) == IF a >= b THEN a ELSE b

SolTransfer(sig, from, to, amount) ==
    [signature |-> sig, slot |-> SlotOf(sig), from |-> from, to |-> to,
     amount_lamports |-> amount]

\* parse_sol_transfers_debug on the transactions of the chain: transaction 1 moves
\* lamports from the personal wallet to the withdraw authority; transaction 2 has two
\* relevant balance changes and yields two transfers; the others yield none.
Ledger(sig) ==
    CASE sig = 1 -> <<SolTransfer(1, "personal_wallet", "withdraw_authority", 2)>>
      [] sig = 2 -> <<SolTransfer(2, "withdraw_authority", "exchange", 2),
                      SolTransfer(2, "identity", "exchange", 1)>>
      [] OTHER   -> <<>>

\* The accounts a transaction of the chain references: the node lists a transaction
\* in the history of exactly these.  Transaction 3 moves no lamports of interest.
Mentions(sig) ==
    CASE sig = 1 -> {"personal_wallet", "withdraw_authority"}
      [] sig = 2 -> {"withdraw_authority", "personal_wallet", "identity", "exchange"}
      [] OTHER   -> {"withdraw_authority", "personal_wallet", "sfdp_reimbursement"}

\* What a node can list for an account: any part of the transactions referencing it
\* (a node may lag behind or have pruned old entries).
Histories(account) == SUBSET {sig \in Sigs : account \in Mentions(sig)}

\* transactions::get_tracked_accounts
TrackedAccounts ==
    <<[label |-> "withdraw_authority", account |-> "withdraw_authority"],
      [label |-> "personal_wallet", account |-> "personal_wallet"],
      [label |-> "sfdp_reimbursement", account |-> "sfdp_reimbursement"]>>

\* SolTransfer <- SolTransferRow: row_to_transfer.
RowToTransfer(row) ==
    [signature |-> row.signature, slot |-> AsU64(row.slot), from |-> row.from_address,
     to |-> row.to_address, amount_lamports |-> AsU64(row.amount_lamports)]

\* Cache::store_transfers on success: the committed table.
store_transfers(rows, list, account_key) ==
    ExecuteAll("sol_transfers", rows,
               [i \in 1..Len(list) |-> [transfer |-> list[i], account_key |-> account_key]])

\* The orders ORDER BY slot DESC can return a set of rows in (ties in any order).
RECURSIVE OrderBySlotDesc(_)
OrderBySlotDesc(set) ==
    IF set = {} THEN {<<>>}
    ELSE UNION {{<<t>> \o rest : rest \in OrderBySlotDesc(set \ {t})}
                   : t \in {u \in set : \A q \in set : u.slot >= q.slot}}

\* The filter_map of get_all_transfers: the first row of each signature is kept.
RECURSIVE FirstPerSignature(_, _)
FirstPerSignature(list, seen) ==
    IF list = <<>> THEN <<>>
    ELSE IF Head(list).signature \in seen THEN FirstPerSignature(Tail(list), seen)
    ELSE <<Head(list)>> \o FirstPerSignature(Tail(list), seen \cup {Head(list).signature})

\* Cache::get_all_transfers: the lists it can return (SELECT DISTINCT without
\* account_key, ORDER BY slot DESC, then one row per signature).
get_all_transfers(rows) ==
    {FirstPerSignature(o, {}) : o \in OrderBySlotDesc({RowToTransfer(r) : r \in rows})}

\* Cache::get_account_progress.  MAX(slot) over no rows is NULL, which decodes as 0.
get_account_progress(progress_rows, transfer_rows, account_key) ==
    LET mine == {r \in progress_rows : r.account_key = account_key}
        progress_slot == IF mine = {} THEN None
                         ELSE Some(AsU64((CHOOSE r \in mine : TRUE).highest_slot))
        slots == {r.slot : r \in {q \in transfer_rows : q.account_key = account_key}}
        max_slot == IF slots = {} THEN 0 ELSE CHOOSE m \in slots : \A q \in slots : m >= q
        transfer_slot == IF max_slot > 0 THEN Some(AsU64(max_slot)) ELSE None
    IN  CASE progress_slot # None /\ transfer_slot # None ->
                Some(Max(progress_slot[1], transfer_slot[1]))
          [] progress_slot # None /\ transfer_slot = None -> progress_slot
          [] progress_slot = None /\ transfer_slot # None -> transfer_slot
          [] OTHER -> None

\* A cursor write that writes nothing.
set_account_progress_Skipped(progress_rows, account_key, highest_slot) == progress_rows

\* Cache::set_account_progress on success: INSERT OR REPLACE on the key account_key.
set_account_progress(progress_rows, account_key, highest_slot) ==
    {r \in progress_rows : r.account_key # account_key}
        \cup {[account_key |-> account_key, highest_slot |-> AsI64(highest_slot)]}

\* A set of transactions as the node lists it: newest first.
RECURSIVE NewestFirst(_)
NewestFirst(set) ==
    IF set = {} THEN <<>>
    ELSE LET newest == CHOOSE t \in set : \A q \in set : t >= q
         IN  <<[signature |-> newest, slot |-> SlotOf(newest)]>> \o NewestFirst(set \ {newest})

\* get_signatures_for_address_with_config(before, limit): the next page of the listing.
NextPage(history, before) ==
    LET older == IF before = None THEN history ELSE {t \in history : t < before[1]}
        listing == NewestFirst(older)
    IN  SubSeq(listing, 1, Min(PageLimit, Len(listing)))

\* A cursor test that lets an entry at the cursor itself through.
FirstCached_Strict(batch, stop_slot) ==
    IF \E k \in 1..Len(batch) : batch[k].slot < stop_slot
    THEN CHOOSE k \in 1..Len(batch) :
            /\ batch[k].slot < stop_slot
            /\ \A j \in 1..(k - 1) : batch[j].slot >= stop_slot
    ELSE 0

\* The index of the first entry of a batch at or below the cursor, 0 if there is none.
FirstCached(batch, stop_slot) ==
    IF \E k \in 1..Len(batch) : batch[k].slot <= stop_slot
    THEN CHOOSE k \in 1..Len(batch) :
            /\ batch[k].slot <= stop_slot
            /\ \A j \in 1..(k - 1) : batch[j].slot > stop_slot
    ELSE 0

\* The transfers of the collected signatures whose transaction could be fetched, in
\* the order of the signatures.
RECURSIVE Extract(_, _, _)
Extract(signatures, fetched, i) ==
    IF i > Len(signatures) THEN <<>>
    ELSE (IF i \in fetched THEN Ledger(signatures[i].signature) ELSE <<>>)
            \o Extract(signatures, fetched, i + 1)

\* `if seen_signatures.insert(transfer.signature.clone()) { kept.push(transfer) }` over
\* a list: the transfers kept and the signatures seen afterwards.
RECURSIVE InsertUnseen(_, _, _)
InsertUnseen(list, kept, seen) ==
    IF list = <<>> THEN [kept |-> kept, seen |-> seen]
    ELSE IF Head(list).signature \in seen THEN InsertUnseen(Tail(list), kept, seen)
    ELSE InsertUnseen(Tail(list), Append(kept, Head(list)),
                      seen \cup {Head(list).signature})

\* all_transfers.sort_by(|a, b| b.slot.cmp(&a.slot)): stable, newest first.
RECURSIVE SortBySlotDesc(_)
SortBySlotDesc(list) ==
    IF list = <<>> THEN <<>>
    ELSE LET i == CHOOSE k \in 1..Len(list) :
                     /\ \A j \in 1..Len(list) : list[k].slot >= list[j].slot
                     /\ \A j \in 1..(k - 1) : list[j].slot < list[k].slot
         IN  <<list[i]>> \o SortBySlotDesc(SubSeq(list, 1, i - 1) \o SubSeq(list, i + 1, Len(list)))

\* The sort and dedup_by of fetch_sol_transfers on the composite key (signature, from,
\* to, amount), then the sort by timestamp: one copy of each transfer, oldest first
\* (the transfers of one transaction in the order of their composite keys).
RECURSIVE DedupOldestFirst(_)
DedupOldestFirst(set) ==
    IF set = {} THEN <<>>
    ELSE LET oldest == CHOOSE t \in set : \A q \in set : t.slot <= q.slot
         IN  <<oldest>> \o DedupOldestFirst(set \ {oldest})

\* The pagination loop of fetch_sol_transfers (no cursor), run until it ends or until
\* its page requests fail for good after `pages` pages.
RECURSIVE Paginate(_, _, _, _)
Paginate(history, before, signatures, pages) ==
    IF Len(signatures) >= MAX_SIGNATURES_PER_ACCOUNT \/ pages = 0 THEN signatures
    ELSE LET batch == NextPage(history, before)
         IN  IF batch = <<>> THEN signatures
             ELSE Paginate(history, Some(batch[Len(batch)].signature),
                           signatures \o batch, pages - 1)

\* The results of a successful DuneClient::fetch_transfers: the transfers of some
\* transactions of the chain, ORDER BY block_slot DESC.
DuneTransferResponses ==
    {Extract(NewestFirst(set), 1..MaxSig, 1) : set \in SUBSET Sigs}

\* A new invocation of fetch_transfers_with_cache.
TransfersInvoke(no_cache, dune_api_key) ==
    /\ transfer_run.pc = "idle"
    /\ transfer_run.runs < MaxRuns
    /\ transfer_run' = [NoTransferRun EXCEPT
                           !.pc = "entry", !.no_cache = no_cache,
                           !.dune_api_key = dune_api_key,
                           !.runs = transfer_run.runs + 1,
                           !.cached = {RowToTransfer(r) : r \in db["sol_transfers"]}]
    /\ account_scan' = NoScan
    /\ UNCHANGED <<db, tx, call, account_progress>>
    /\ UNCHANGED <<engineVars, categorizeVars, report, laterVars>>

\* The run returns Err after a `?`: r is "read_err" or "store_err".
TransfersErr(r) ==
    transfer_run' = [transfer_run EXCEPT !.pc = "done", !.ret = r, !.all_transfers = <<>>]

\* fetch_transfers_with_cache, no_cache: one iteration of the loop over the accounts in
\* fetch_sol_transfers (pagination without a cursor, then the transactions).
NoCacheFetch ==
    /\ transfer_run.pc = "entry" /\ transfer_run.no_cache
    /\ \E history \in Histories(TrackedAccounts[transfer_run.account].account),
          pages \in 0..MaxSig :
          LET signatures == Paginate(history, None, <<>>, pages)
          IN  \E fetched \in SUBSET (1..Len(signatures)) :
                 transfer_run' =
                    [transfer_run EXCEPT
                        !.all_transfers = @ \o Extract(signatures, fetched, 1),
                        !.returned = @ \cup
                            {[account_key |-> TrackedAccounts[transfer_run.account].label,
                              transfer |-> t]
                                : t \in Range(Extract(signatures, fetched, 1))},
                        !.account = @ + 1,
                        !.pc = IF transfer_run.account = Len(TrackedAccounts)
                               THEN "nocache_store" ELSE "entry"]
    /\ UNCHANGED <<db, tx, call, account_progress, account_scan>>
    /\ UNCHANGED <<engineVars, categorizeVars, report, laterVars>>

\* The transfers stored under one tracked account by the no_cache branch.
OfAccount(list, account) == SelectSeq(list, LAMBDA t : t.from = account \/ t.to = account)

\* The table after the no_cache store loop has committed the batches of the first n
\* tracked accounts.
RECURSIVE StoredByAccount(_, _, _)
StoredByAccount(rows, list, n) ==
    IF n = 0 THEN rows
    ELSE store_transfers(StoredByAccount(rows, list, n - 1),
                         OfAccount(list, TrackedAccounts[n].account),
                         TrackedAccounts[n].label)

\* fetch_transfers_with_cache, no_cache: the end of fetch_sol_transfers (dedup, sort),
\* the store loop over the tracked accounts and the return.
NoCacheStore ==
    /\ transfer_run.pc = "nocache_store"
    /\ LET fresh == DedupOldestFirst(Range(transfer_run.all_transfers))
       IN  \/ /\ db' = [db EXCEPT !["sol_transfers"] =
                           StoredByAccount(@, fresh, Len(TrackedAccounts))]
              /\ transfer_run' = [transfer_run EXCEPT !.pc = "done", !.ret = "ok",
                                                      !.all_transfers = fresh]
           \/ \* store_transfers fails for the n-th account: `?`
              \E n \in 1..Len(TrackedAccounts) :
                 /\ OfAccount(fresh, TrackedAccounts[n].account) # <<>>
                 /\ db' = [db EXCEPT !["sol_transfers"] = StoredByAccount(@, fresh, n - 1)]
                 /\ TransfersErr("store_err")
    /\ UNCHANGED <<tx, call, account_progress, account_scan>>
    /\ UNCHANGED <<engineVars, categorizeVars, report, laterVars>>

\* fetch_transfers_with_cache, cached path up to the loop: the cached transfers and
\* their signatures.
TransfersStart ==
    /\ transfer_run.pc = "entry" /\ ~transfer_run.no_cache
    /\ \/ \E cached_transfers \in get_all_transfers(db["sol_transfers"]) :
             transfer_run' =
                [transfer_run EXCEPT
                    !.pc = "account", !.account = 1,
                    !.all_transfers = cached_transfers,
                    !.seen_signatures = {t.signature : t \in Range(cached_transfers)}]
       \/ \* get_all_transfers fails: `?`
          TransfersErr("read_err")
    /\ UNCHANGED <<db, tx, call, account_progress, account_scan>>
    /\ UNCHANGED <<engineVars, categorizeVars, report, laterVars>>

\* The head of one iteration of the loop over the tracked accounts: the cursor of the
\* account is read and fetch_transfers_for_account is entered.
ScanBegin ==
    /\ transfer_run.pc = "account"
    /\ \/ \E history \in Histories(TrackedAccounts[transfer_run.account].account) :
             /\ account_scan' =
                   [NoScan EXCEPT
                       !.label = TrackedAccounts[transfer_run.account].label,
                       !.stop_at_slot = get_account_progress(account_progress,
                                            db["sol_transfers"],
                                            TrackedAccounts[transfer_run.account].label),
                       !.history = history]
             /\ transfer_run' = [transfer_run EXCEPT !.pc = "paging"]
       \/ \* get_account_progress fails: `?`
          /\ TransfersErr("read_err")
          /\ UNCHANGED account_scan
    /\ UNCHANGED <<db, tx, call, account_progress>>
    /\ UNCHANGED <<engineVars, categorizeVars, report, laterVars>>

\* The replies get_transaction_with_config would give to the tries of one transaction:
\* TRUE for Ok.
TxReplies == [1..3 -> BOOLEAN]

\* `for retry in 0..3` over one transaction: the tries made and whether one returned
\* the transaction (`break` on the first Ok).
TxFetch(replies) ==
    IF \E k \in 1..3 : replies[k]
    THEN [tries |-> CHOOSE k \in 1..3 : replies[k] /\ \A j \in 1..(k - 1) : ~replies[j],
          ok |-> TRUE]
    ELSE [tries |-> 3, ok |-> FALSE]

\* The retry counter of the pagination loop that a successful page leaves as it is.
RetriesAfterPage_Kept(retries) == retries

\* `retries = 0` on Ok(batch).
RetriesAfterPage(retries) == 0

\* The head of the pagination loop: `if signatures.len() >= max_signatures { break }`.
ScanLimit ==
    /\ transfer_run.pc = "paging"
    /\ Len(account_scan.signatures) >= MAX_SIGNATURES_PER_ACCOUNT
    /\ transfer_run' = [transfer_run EXCEPT !.pc = "parse"]
    /\ UNCHANGED <<db, tx, call, account_progress, account_scan>>
    /\ UNCHANGED <<engineVars, categorizeVars, report, laterVars>>

\* One iteration of the pagination loop whose page request succeeds.
ScanPageOk ==
    /\ transfer_run.pc = "paging"
    /\ Len(account_scan.signatures) < MAX_SIGNATURES_PER_ACCOUNT
    /\ LET batch == NextPage(account_scan.history, account_scan.before)
           highest == IF account_scan.highest_slot_seen = None THEN Some(batch[1].slot)
                      ELSE Some(Max(account_scan.highest_slot_seen[1], batch[1].slot))
           k == IF account_scan.stop_at_slot = None THEN 0
                ELSE FirstCached(batch, account_scan.stop_at_slot[1])
           seen == [account_scan EXCEPT !.retries = RetriesAfterPage(@), !.pages = @ + 1,
                                        !.observed = @ \o batch]
       IN  IF batch = <<>>
           THEN /\ account_scan' = seen
                /\ transfer_run' = [transfer_run EXCEPT !.pc = "parse"]
           ELSE IF k > 0
           THEN \* an entry at or below the cursor: the entries before it are kept
                /\ account_scan' = [seen EXCEPT !.highest_slot_seen = highest,
                                                !.signatures = @ \o SubSeq(batch, 1, k - 1),
                                                !.stopped_at_cached = TRUE]
                /\ transfer_run' = [transfer_run EXCEPT !.pc = "parse"]
           ELSE /\ account_scan' = [seen EXCEPT !.highest_slot_seen = highest,
                                                !.signatures = @ \o batch,
                                                !.before = Some(batch[Len(batch)].signature)]
                /\ UNCHANGED transfer_run
    /\ UNCHANGED <<db, tx, call, account_progress>>
    /\ UNCHANGED <<engineVars, categorizeVars, report, laterVars>>

\* One iteration of the pagination loop whose page request fails: a retry, or the end
\* of the loop after max_retries failures in a row.
ScanPageErr ==
    /\ transfer_run.pc = "paging"
    /\ Len(account_scan.signatures) < MAX_SIGNATURES_PER_ACCOUNT
    /\ account_scan' = [account_scan EXCEPT !.retries = @ + 1]
    /\ transfer_run' = [transfer_run EXCEPT
                           !.pc = IF account_scan.retries + 1 >= MaxRetries
                                  THEN "parse" ELSE "paging",
                           !.retries_exhausted = @ \/ account_scan.retries + 1 >= MaxRetries]
    /\ UNCHANGED <<db, tx, call, account_progress>>
    /\ UNCHANGED <<engineVars, categorizeVars, report, laterVars>>

\* The rest of fetch_transfers_for_account: each collected transaction is fetched (three
\* attempts) and parsed; the function returns Ok in every case.
ScanParse ==
    /\ transfer_run.pc = "parse"
    /\ \E schedule \in [1..Len(account_scan.signatures) -> TxReplies] :
          LET fetched == {i \in 1..Len(account_scan.signatures) : TxFetch(schedule[i]).ok}
          IN  account_scan' = [account_scan EXCEPT
                                  !.transfers = Extract(account_scan.signatures, fetched, 1),
                                  !.tx_tries = [i \in 1..Len(account_scan.signatures) |->
                                                   TxFetch(schedule[i]).tries],
                                  !.fetched = {account_scan.signatures[i].signature
                                                  : i \in fetched}]
    /\ transfer_run' = [transfer_run EXCEPT
                           !.pc = "progress",
                           !.returned = @ \cup {[account_key |-> account_scan.label,
                                                 transfer |-> t]
                                                   : t \in Range(account_scan'.transfers)}]
    /\ UNCHANGED <<db, tx, call, account_progress>>
    /\ UNCHANGED <<engineVars, categorizeVars, report, laterVars>>

\* The position of the run after the iteration of the current account.
NextAccount ==
    IF transfer_run.account = Len(TrackedAccounts)
    THEN [transfer_run EXCEPT !.pc = "fallback"]
    ELSE [transfer_run EXCEPT !.pc = "account", !.account = @ + 1]

\* `if let Some(highest_slot) = result.highest_slot_seen { set_account_progress(..)? }`
ScanProgress ==
    /\ transfer_run.pc = "progress"
    /\ \/ /\ account_progress' =
                IF account_scan.highest_slot_seen = None THEN account_progress
                ELSE set_account_progress(account_progress, account_scan.label,
                                          account_scan.highest_slot_seen[1])
          /\ account_scan' = [account_scan EXCEPT !.persisted = TRUE]
          /\ transfer_run' = [transfer_run EXCEPT !.pc = "store"]
       \/ \* set_account_progress fails: `?`
          /\ account_scan.highest_slot_seen # None
          /\ TransfersErr("store_err")
          /\ UNCHANGED <<account_progress, account_scan>>
    /\ UNCHANGED <<db, tx, call>>
    /\ UNCHANGED <<engineVars, categorizeVars, report, laterVars>>

\* `if !result.transfers.is_empty()`: the new transfers are stored under the account
\* and those with an unseen signature join all_transfers; then the next account.
ScanStore ==
    /\ transfer_run.pc = "store"
    /\ \/ LET merged == InsertUnseen(account_scan.transfers, transfer_run.all_transfers,
                                     transfer_run.seen_signatures)
          IN  /\ db' = [db EXCEPT !["sol_transfers"] =
                           store_transfers(@, account_scan.transfers, account_scan.label)]
              /\ transfer_run' = [NextAccount EXCEPT !.all_transfers = merged.kept,
                                                     !.seen_signatures = merged.seen]
       \/ \* store_transfers fails: `?`
          /\ account_scan.transfers # <<>>
          /\ UNCHANGED db
          /\ TransfersErr("store_err")
    /\ account_scan' = NoScan
    /\ UNCHANGED <<tx, call, account_progress>>
    /\ UNCHANGED <<engineVars, categorizeVars, report, laterVars>>

\* After the loop: the Dune fallback when the RPC failed or nothing is known, the sort
\* and the return.
TransfersFallback ==
    /\ transfer_run.pc = "fallback"
    /\ IF (transfer_run.rpc_failed \/ transfer_run.all_transfers = <<>>)
             /\ transfer_run.dune_api_key
       THEN \/ \* Err(e): warning only
               /\ transfer_run' =
                     [transfer_run EXCEPT
                         !.pc = "done", !.ret = "ok", !.dune_calls = @ + 1,
                         !.all_transfers = SortBySlotDesc(transfer_run.all_transfers)]
               /\ UNCHANGED db
            \/ \E dune_transfers \in DuneTransferResponses :
                  LET new == InsertUnseen(dune_transfers, <<>>, transfer_run.seen_signatures)
                  IN  \/ /\ db' = [db EXCEPT !["sol_transfers"] =
                                      store_transfers(@, new.kept, "dune")]
                         /\ transfer_run' =
                               [transfer_run EXCEPT
                                   !.pc = "done", !.ret = "ok", !.dune_calls = @ + 1,
                                   !.seen_signatures = new.seen,
                                   !.returned = @ \cup {[account_key |-> "dune",
                                                         transfer |-> t]
                                                           : t \in Range(dune_transfers)},
                                   !.all_transfers =
                                       SortBySlotDesc(transfer_run.all_transfers \o new.kept)]
                      \/ \* store_transfers fails: `?`
                         /\ new.kept # <<>>
                         /\ UNCHANGED db
                         /\ transfer_run' = [transfer_run EXCEPT
                                                !.pc = "done", !.ret = "store_err",
                                                !.dune_calls = @ + 1,
                                                !.all_transfers = <<>>]
       ELSE /\ transfer_run' =
                  [transfer_run EXCEPT
                      !.pc = "done", !.ret = "ok",
                      !.all_transfers = SortBySlotDesc(transfer_run.all_transfers)]
            /\ UNCHANGED db
    /\ UNCHANGED <<tx, call, account_progress, account_scan>>
    /\ UNCHANGED <<engineVars, categorizeVars, report, laterVars>>

\* The caller has taken the returned list (or the error).
TransfersFinish ==
    /\ transfer_run.pc = "done"
    /\ transfer_run' = [NoTransferRun EXCEPT !.runs = transfer_run.runs]
    /\ account_scan' = NoScan
    /\ UNCHANGED <<db, tx, call, account_progress>>
    /\ UNCHANGED <<engineVars, categorizeVars, report, laterVars>>

NextTransfers ==
    \/ \E no_cache \in BOOLEAN, dune_api_key \in BOOLEAN : TransfersInvoke(no_cache, dune_api_key)
    \/ NoCacheFetch
    \/ NoCacheStore
    \/ TransfersStart
    \/ ScanBegin
    \/ ScanLimit
    \/ ScanPageOk
    \/ ScanPageErr
    \/ ScanParse
    \/ ScanProgress
    \/ ScanStore
    \/ TransfersFallback
    \/ TransfersFinish

SpecTransfers == Init /\ [][NextTransfers]_vars

(***************************************************************************)
(* Properties of the transfer reconciler, checked under SpecTransfers.     *)
(***************************************************************************)
\* The cursor of an account as get_account_progress returns it.
Cursor(account_key) ==
    get_account_progress(account_progress, db["sol_transfers"], account_key)

\* The larger of two Option<u64>, None being below every Some.
OptMax(a, b) ==
    IF a = None THEN b ELSE IF b = None THEN a ELSE Some(Max(a[1], b[1]))

\* The scan of the current account has returned and its cursor write has returned Ok.
ScanPersisted == transfer_run.pc = "store" /\ account_scan.persisted

\* The position of the newest entry the scan observed.
NewestObserved ==
    CHOOSE m \in {e.slot : e \in Range(account_scan.observed)} :
        \A e \in Range(account_scan.observed) : m >= e.slot

\* C11: after a scan the persisted cursor of the account equals max(old cursor, highest
\* position seen in the scan); in particular the cursor never decreases, whatever
\* the node listed during the scan.
C11_AsStated ==
    ScanPersisted =>
        Cursor(account_scan.label)
            = OptMax(account_scan.stop_at_slot, account_scan.highest_slot_seen)

\* C12: a scan that observed at least one history entry and extracted no transfer
\* leaves, once its cursor write has returned, a cursor for the account (so the
\* account is told apart from a never-scanned one) that is at least the position of
\* the newest entry observed.
C12_ScannedCursorCoversNewest ==
    (ScanPersisted /\ account_scan.observed # <<>> /\ account_scan.transfers = <<>>) =>
        /\ Cursor(account_scan.label) # None
        /\ Cursor(account_scan.label)[1] >= NewestObserved

\* A scan collected signatures, extracted no transfer from them and wrote its cursor.
C12_Witness ==
    /\ ScanPersisted
    /\ account_scan.signatures # <<>>
    /\ account_scan.transfers = <<>>
    /\ Cursor(account_scan.label) = Some(NewestObserved)

\* The scan of the current account is past the read of its cursor.
Scanning == transfer_run.pc \in {"paging", "parse", "progress", "store"}

\* C13: with a stored cursor c, the signatures a scan collects are exactly the observed
\* entries that precede the first observed entry at a position <= c, all of them at
\* positions > c; once such an entry has been met the pagination is over; and every
\* transfer the scan extracts comes from an entry at a position > c.
C13_StopsAtCursor ==
    (Scanning /\ account_scan.stop_at_slot # None) =>
        LET c == account_scan.stop_at_slot[1]
            k == FirstCached(account_scan.observed, c)
        IN  /\ \A i \in 1..Len(account_scan.signatures) : account_scan.signatures[i].slot > c
            /\ account_scan.signatures
                   = IF k = 0 THEN account_scan.observed
                     ELSE SubSeq(account_scan.observed, 1, k - 1)
            /\ (k > 0) => (transfer_run.pc # "paging" /\ account_scan.stopped_at_cached)
            /\ \A t \in Range(account_scan.transfers) : t.slot > c

\* A scan with a cursor kept the entries above it, met an entry at or below it in the
\* same page and extracted transfers from the entries kept.
C13_Witness ==
    /\ ScanPersisted
    /\ account_scan.stop_at_slot # None
    /\ account_scan.stopped_at_cached
    /\ account_scan.signatures # <<>>
    /\ account_scan.transfers # <<>>
    /\ Len(account_scan.observed) > Len(account_scan.signatures)

\* How many times a list holds a transfer.
Count(list, t) == Cardinality({i \in 1..Len(list) : list[i] = t})

\* fetch_transfers_with_cache has returned Ok(all_transfers).
TransfersReturned == transfer_run.pc = "done" /\ transfer_run.ret = "ok"

\* The transfers the run got more than once: returned for two different accounts, or
\* cached when the run began and returned again.
SeenTwice ==
    {t \in {x.transfer : x \in transfer_run.returned} :
        \/ t \in transfer_run.cached
        \/ \E x, y \in transfer_run.returned :
              x.transfer = t /\ y.transfer = t /\ x.account_key # y.account_key}

\* C14: a transfer (signature, from, to, amount) the run got for two different
\* accounts, or that was cached and was returned again, is exactly once in the list
\* fetch_transfers_with_cache returns and exactly once in every list get_all_transfers
\* can return afterwards.
C14_AsStated ==
    TransfersReturned =>
        \A t \in SeenTwice :
            /\ Count(transfer_run.all_transfers, t) = 1
            /\ \A list \in get_all_transfers(db["sol_transfers"]) : Count(list, t) = 1

\* Away from transactions with several transfers: a transfer that is the only one of
\* its signature and was got twice is exactly once in both lists.
C14_OnceWithoutSiblings ==
    TransfersReturned =>
        \A t \in SeenTwice :
            (\A x \in transfer_run.returned : x.transfer.signature = t.signature
                                                 => x.transfer = t)
            => /\ Count(transfer_run.all_transfers, t) = 1
               /\ \A list \in get_all_transfers(db["sol_transfers"]) : Count(list, t) = 1

\* Two transfers of one transaction the run was given.
Siblings ==
    {pair \in {x.transfer : x \in transfer_run.returned}
                \X {x.transfer : x \in transfer_run.returned} :
        pair[1].signature = pair[2].signature /\ pair[1] # pair[2]}

\* C15: two transfers that share a signature and differ in (from, to, amount), both
\* returned to a run, are both in the list the run returns, both in the store, and
\* both in every list a later get_all_transfers can return.
C15_AsStated ==
    TransfersReturned =>
        \A pair \in Siblings :
            \A t \in {pair[1], pair[2]} :
                /\ Count(transfer_run.all_transfers, t) >= 1
                /\ \E r \in db["sol_transfers"] : RowToTransfer(r) = t
                /\ \A list \in get_all_transfers(db["sol_transfers"]) : Count(list, t) >= 1

\* ---------------------------------------------------------------------------------
\* Transfer classification (transactions.rs, categorize_transfers)
\* ---------------------------------------------------------------------------------

\* Longest transfer list given to categorize_transfers, and the largest amount.
MaxTransfers == 2
MaxLamports == 2

\* The addresses of the model: the four addresses of the configuration, one address
\* of each labelled category a counterparty can have, and one unlabelled address.
Pubkeys ==
    {"vote_account", "identity", "withdraw_authority", "personal_wallet",
     "sfdp_reimbursement", "jito", "exchange", "unknown"}

\* addresses::get_category: the category of the label of an address, Unknown without
\* a label. The configured addresses have no label in KNOWN_ADDRESSES.
get_category(pubkey) ==
    CASE pubkey = "sfdp_reimbursement" -> "SolanaFoundation"
      [] pubkey = "jito" -> "JitoMev"
      [] pubkey = "exchange" -> "Exchange"
      [] OTHER -> "Unknown"

is_solana_foundation(pubkey) == get_category(pubkey) = "SolanaFoundation"

is_jito(pubkey) == get_category(pubkey) = "JitoMev"

is_exchange(pubkey) == get_category(pubkey) = "Exchange"

\* Config::is_our_account: the vote account, the identity and the withdraw authority.
is_our_account(pubkey) == pubkey \in {"vote_account", "identity", "withdraw_authority"}

\* categorized.<class>.push(transfer.clone())
Push(cat, class, transfer) == [cat EXCEPT ![class] = Append(@, transfer)]

\* The body of the loop of categorize_transfers for one transfer.
CategorizeOne(cat, transfer) ==
    LET is_incoming == is_our_account(transfer.to)
        is_outgoing == is_our_account(transfer.from)
    IN  IF is_incoming
        THEN IF transfer.from = "personal_wallet" THEN Push(cat, "seeding", transfer)
             ELSE IF is_solana_foundation(transfer.from)
                  THEN Push(cat, "sfdp_reimbursements", transfer)
             ELSE IF is_jito(transfer.from) THEN Push(cat, "mev_deposits", transfer)
             ELSE IF is_our_account(transfer.from) THEN Push(cat, "vote_funding", transfer)
             ELSE Push(cat, "other", transfer)
        ELSE IF is_outgoing
        THEN IF is_exchange(transfer.to) \/ transfer.to = "personal_wallet"
             THEN Push(cat, "withdrawals", transfer)
             ELSE IF is_our_account(transfer.to) THEN Push(cat, "vote_funding", transfer)
             ELSE Push(cat, "other", transfer)
        ELSE cat

\* The loop of categorize_transfers from the i-th transfer on.
RECURSIVE CategorizeFrom(_, _, _)
CategorizeFrom(list, i, cat) ==
    IF i > Len(list) THEN cat
    ELSE CategorizeFrom(list, i + 1, CategorizeOne(cat, list[i]))

categorize_transfers(list) == CategorizeFrom(list, 1, NoCategorized)

\* The transfers a list given to categorize_transfers can hold: any two different
\* addresses, any amount.
TransferInputs ==
    {t \in {SolTransfer(1, from, to, amount) :
                from \in Pubkeys, to \in Pubkeys, amount \in 1..MaxLamports} :
        t.from # t.to}

\* The lists of at most MaxTransfers transfers.
TransferLists == UNION {[1..n -> TransferInputs] : n \in 0..MaxTransfers}

\* A list of transfers is about to be classified; nothing else is running.
InitCategorize ==
    /\ InitStore
    /\ InitEngine
    /\ account_progress = {}
    /\ transfer_run = NoTransferRun
    /\ account_scan = NoScan
    /\ transfers \in TransferLists
    /\ categorized = NoCategorized
    /\ report = NoReport
    /\ walk = NoWalk
    /\ cmd = NoCmd
    /\ upstream = NoRequest

\* categorize_transfers(&transfers, config) returns.
Categorize ==
    /\ ~categorized.returned
    /\ categorized' = [categorize_transfers(transfers) EXCEPT !.returned = TRUE]
    /\ UNCHANGED <<db, tx, call, engineVars, transferVars, transfers, report, laterVars>>

NextCategorize == Categorize

SpecCategorize == InitCategorize /\ [][NextCategorize]_vars

\* ---------------------------------------------------------------------------------
\* Claims about the classification
\* ---------------------------------------------------------------------------------

\* The six classes of CategorizedTransfers.
Classes ==
    {"seeding", "sfdp_reimbursements", "mev_deposits", "vote_funding", "withdrawals",
     "other"}

\* The sum of a function of the classes over a set of classes.
RECURSIVE ClassSum(_, _)
ClassSum(f, set) ==
    IF set = {} THEN 0
    ELSE LET c == CHOOSE x \in set : TRUE IN f[c] + ClassSum(f, set \ {c})

\* C16: categorize_transfers places every input transfer in exactly one of the six
\* classes: the class sizes sum to the number of inputs, and every transfer is in the
\* classes, taken together, as many times as it is in the input (none dropped, none
\* in two classes).
C16_AsStated ==
    categorized.returned =>
        /\ ClassSum([c \in Classes |-> Len(categorized[c])], Classes) = Len(transfers)
        /\ \A t \in Range(transfers) :
              ClassSum([c \in Classes |-> Count(categorized[c], t)], Classes)
                  = Count(transfers, t)

\* The partition holds for the transfers with an end among the validator's accounts.
C16_PartitionOfOurs ==
    categorized.returned =>
        \A t \in Range(transfers) :
            (is_our_account(t.from) \/ is_our_account(t.to)) =>
                ClassSum([c \in Classes |-> Count(categorized[c], t)], Classes)
                    = Count(transfers, t)

\* The class the policy table gives for a transfer, from its direction relative to the
\* validator's own addresses and the category of its counterparty.
PolicyClass(t) ==
    LET inbound == is_our_account(t.to)
        outbound == is_our_account(t.from)
    IN  CASE inbound /\ t.from = "personal_wallet" -> "seeding"
          [] inbound /\ get_category(t.from) = "SolanaFoundation" -> "sfdp_reimbursements"
          [] inbound /\ get_category(t.from) = "JitoMev" -> "mev_deposits"
          [] inbound /\ is_our_account(t.from) -> "vote_funding"
          [] outbound /\ (get_category(t.to) = "Exchange" \/ t.to = "personal_wallet")
                -> "withdrawals"
          [] outbound /\ is_our_account(t.to) -> "vote_funding"
          [] OTHER -> "other"

\* C17: every transfer is put in the class the policy table gives for its direction
\* and counterparty category, and in no other class; nothing else (amount, position
\* in the list) takes part.
C17_AsStated ==
    categorized.returned =>
        \A t \in Range(transfers) : \A c \in Classes :
            Count(categorized[c], t) = IF c = PolicyClass(t) THEN Count(transfers, t) ELSE 0

\* The table is followed for the transfers with an end among the validator's accounts.
C17_PolicyOfOurs ==
    categorized.returned =>
        \A t \in Range(transfers) :
            (is_our_account(t.from) \/ is_our_account(t.to)) =>
                \A c \in Classes :
                    Count(categorized[c], t)
                        = IF c = PolicyClass(t) THEN Count(transfers, t) ELSE 0

\* ---------------------------------------------------------------------------------
\* One run of the report generation (main.rs, run_report_generation)
\*
\* report.step is the step the run is about to take, report.outcome the results of the
\* steps taken so far, report.status the value run_report_generation returned.  Each
\* reconciler is called once and is represented by what it returns: Ok, or the Err of
\* a failed cache read, a failed cache write or a failed upstream call, as in the
\* reconcilers above.
\* ---------------------------------------------------------------------------------

\* The failures of the local store.
StorageErrs == {"read_err", "store_err"}

\* What the reconciler of a step can return.  With no_cache the reconcilers read
\* nothing from the cache and the upstream error of the epoch reconcilers is
\* propagated (fetch_sol_transfers never fails); on the cached path only the MEV and
\* the price reconcilers propagate an upstream error.
ReturnsOf(step, no_cache) ==
    CASE step \in {"rewards", "leader_fees"} ->
            IF no_cache THEN {"ok", "upstream_err", "store_err"}
            ELSE {"ok", "read_err", "store_err"}
      [] step = "transfers" ->
            IF no_cache THEN {"ok", "store_err"} ELSE {"ok", "read_err", "store_err"}
      [] step = "mev" ->
            IF no_cache THEN {"ok", "upstream_err", "store_err"}
            ELSE {"ok", "read_err", "upstream_err", "store_err"}
      [] step = "prices" ->
            IF no_cache THEN {"ok", "upstream_err", "store_err"}
            ELSE {"ok", "read_err", "upstream_err", "store_err"}
      [] OTHER -> {"ok"}

\* `.await?`: the step's result is recorded; Ok goes on to the next step, Err is
\* returned by run_report_generation.
Propagate(step, r, next) ==
    report' = [report EXCEPT
                 !.outcome = Append(@, [step |-> step, result |-> r]),
                 !.step = IF r = "ok" THEN next ELSE "done",
                 !.status = IF r = "ok" THEN @ ELSE "err"]

\* `.await.unwrap_or_else(|e| { eprintln!(..); Vec::new() })`: the step's result is
\* recorded and the run goes on to the next step with an empty list.
Swallow(step, r, next) ==
    report' = [report EXCEPT
                 !.outcome = Append(@, [step |-> step, result |-> r]),
                 !.step = next]

\* The run up to Step 1: the configuration is loaded, cache.stats() and
\* get_epoch_info() are called, each with `?`.
RunStart(no_cache) ==
    /\ report.step = "idle"
    /\ \E r \in {"ok", "read_err", "upstream_err"} :
          report' = [report EXCEPT
                       !.no_cache = no_cache,
                       !.outcome = <<[step |-> "start", result |-> r]>>,
                       !.step = IF r = "ok" THEN "rewards" ELSE "done",
                       !.status = IF r = "ok" THEN "none" ELSE "err"]
    /\ UNCHANGED <<db, tx, call, engineVars, transferVars, categorizeVars, laterVars>>

\* Step 1: fetch_rewards_with_cache(..).await?
RunRewards ==
    /\ report.step = "rewards"
    /\ \E r \in ReturnsOf("rewards", report.no_cache) : Propagate("rewards", r, "transfers")
    /\ UNCHANGED <<db, tx, call, engineVars, transferVars, categorizeVars, laterVars>>

\* Step 2: fetch_transfers_with_cache(..).await?
RunTransfers ==
    /\ report.step = "transfers"
    /\ \E r \in ReturnsOf("transfers", report.no_cache) :
          Propagate("transfers", r, "categorize")
    /\ UNCHANGED <<db, tx, call, engineVars, transferVars, categorizeVars, laterVars>>

\* Step 3: categorize_transfers, which cannot fail.
RunCategorize ==
    /\ report.step = "categorize"
    /\ Propagate("categorize", "ok", "mev")
    /\ UNCHANGED <<db, tx, call, engineVars, transferVars, categorizeVars, laterVars>>

\* Step 4: fetch_mev_with_cache(..).await.unwrap_or_else(..)
RunMev ==
    /\ report.step = "mev"
    /\ \E r \in ReturnsOf("mev", report.no_cache) : Swallow("mev", r, "leader_fees")
    /\ UNCHANGED <<db, tx, call, engineVars, transferVars, categorizeVars, laterVars>>

\* Step 5: fetch_leader_fees_with_cache(..).await.unwrap_or_else(..)
RunLeaderFees ==
    /\ report.step = "leader_fees"
    /\ \E r \in ReturnsOf("leader_fees", report.no_cache) :
          Swallow("leader_fees", r, "vote_costs")
    /\ UNCHANGED <<db, tx, call, engineVars, transferVars, categorizeVars, laterVars>>

\* Step 6: cache.get_vote_costs(..).await?, the missing epochs are estimated.
RunVoteCosts ==
    /\ report.step = "vote_costs"
    /\ \E r \in {"ok", "read_err"} : Propagate("vote_costs", r, "expenses")
    /\ UNCHANGED <<db, tx, call, engineVars, transferVars, categorizeVars, laterVars>>

\* Step 7: cache.get_expenses().await?; a failure of Notion is only a warning.
RunExpenses ==
    /\ report.step = "expenses"
    /\ \E r \in {"ok", "read_err"} : Propagate("expenses", r, "prices")
    /\ UNCHANGED <<db, tx, call, engineVars, transferVars, categorizeVars, laterVars>>

\* Step 8: fetch_prices_with_cache(..).await?
RunPrices ==
    /\ report.step = "prices"
    /\ \E r \in ReturnsOf("prices", report.no_cache) : Propagate("prices", r, "reports")
    /\ UNCHANGED <<db, tx, call, engineVars, transferVars, categorizeVars, laterVars>>

\* Steps 9 and 10: generate_all_reports(..)?, print_summary, Ok(()).
RunReports ==
    /\ report.step = "reports"
    /\ \E r \in {"ok", "io_err"} :
          report' = [report EXCEPT
                       !.outcome = Append(@, [step |-> "reports", result |-> r]),
                       !.step = "done",
                       !.status = IF r = "ok" THEN "ok" ELSE "err"]
    /\ UNCHANGED <<db, tx, call, engineVars, transferVars, categorizeVars, laterVars>>

NextRun ==
    \/ \E no_cache \in BOOLEAN : RunStart(no_cache)
    \/ RunRewards
    \/ RunTransfers
    \/ RunCategorize
    \/ RunMev
    \/ RunLeaderFees
    \/ RunVoteCosts
    \/ RunExpenses
    \/ RunPrices
    \/ RunReports

SpecRun == Init /\ [][NextRun]_vars

\* ---------------------------------------------------------------------------------
\* Claims about the run
\* ---------------------------------------------------------------------------------

\* The steps that reconcile a fact type or the transfers.
ReconcileSteps == {"rewards", "transfers", "mev", "leader_fees"}

\* The result a step of the run had, "none" when the step was not taken.
ResultOf(step) ==
    IF \E i \in 1..Len(report.outcome) : report.outcome[i].step = step
    THEN LET i == CHOOSE j \in 1..Len(report.outcome) : report.outcome[j].step = step
         IN  report.outcome[i].result
    ELSE "none"

\* The run is over and its one failure was a storage failure in the reconciler f.
OnlyStorageFailureIn(f) ==
    /\ report.step = "done"
    /\ ResultOf(f) \in StorageErrs
    /\ \A i \in 1..Len(report.outcome) :
          report.outcome[i].step # f => report.outcome[i].result = "ok"

\* C18: a storage failure while reconciling one fact type aborts only that fact type:
\* a run whose one failure is a storage failure in one reconciler has called every
\* other reconciler, the transfers included, and has returned Ok.
C18_AsStated ==
    \A f \in ReconcileSteps :
        OnlyStorageFailureIn(f) =>
            /\ \A g \in ReconcileSteps : ResultOf(g) # "none"
            /\ report.status = "ok"

\* What the claim says holds for the MEV and the leader-fee reconcilers.
C18_SwallowedForMevAndFees ==
    \A f \in {"mev", "leader_fees"} :
        OnlyStorageFailureIn(f) =>
            /\ \A g \in ReconcileSteps : ResultOf(g) # "none"
            /\ report.status = "ok"

\* A run ended with Ok although the MEV reconciler had a storage failure.
C18_MevFailureSurvived == OnlyStorageFailureIn("mev") /\ report.status = "ok"

\* ---------------------------------------------------------------------------------
\* Claims about failures in the primary pass
\* ---------------------------------------------------------------------------------

\* A cached reward or leader-fee run is in, or just past, the loop over its missing
\* epochs.
InPrimaryPass ==
    CachedRun /\ fact \in {"rewards", "leader_fees"} /\ pc \in {"primary", "fallback"}

\* Every missing epoch that follows a failed one and that the loop has passed was
\* queried and is either in the failure set itself or written; and the loop is left
\* only after the last missing epoch.
LaterEpochsServed ==
    InPrimaryPass =>
        /\ \A i, j \in 1..Len(missing) :
              (i < j /\ j < pos /\ missing[i] \in Range(rpc_failures)) =>
                  /\ missing[j] \in queried
                  /\ missing[j] \in Range(rpc_failures) \/ HasRow(Table, missing[j])
        /\ (pc = "fallback") => (pos = Len(missing) + 1)

\* C19: with no_cache unset, a primary failure (error or empty result) for a missing
\* epoch E does not abort the run: the step that puts E in the failure set returns
\* nothing and moves to the next missing epoch (to the fallback after the last one);
\* and the epochs after E in the missing list are queried and, on success, written
\* in the same run.
C19_FailureDoesNotStopTheLoop ==
    [][/\ (CachedRun /\ pc = "primary" /\ rpc_failures' # rpc_failures) =>
             /\ ret' = "none"
             /\ pos' = pos + 1
             /\ pc' = IF pos = Len(missing) THEN "fallback" ELSE "primary"
       /\ LaterEpochsServed']_vars

\* The first missing epoch failed and the next one was then fetched and written.
C19_Witness ==
    /\ InPrimaryPass
    /\ Len(missing) >= 2 /\ pos > 2
    /\ missing[1] \in Range(rpc_failures)
    /\ missing[2] \notin Range(rpc_failures)
    /\ HasRow(Table, missing[2])
    /\ ~HasRow(rows0, missing[2])

\* C20: in the primary pass an epoch is written as a normal fact only if the primary
\* fetch of its data fully succeeded: an epoch whose fetch met an error, for leader
\* fees also on one of its block queries, is in the failure set and has no row
\* written by the primary pass.
C20_AsStated ==
    (InPrimaryPass /\ fact = "leader_fees") =>
        \A e \in block_errors :
            /\ e \in Range(rpc_failures)
            /\ ~HasRow(Table, e)

\* What the claim says holds for the errors the caller sees: every missing epoch
\* the loop has passed without a row is in the failure set.
C20_UnwrittenAreFailures ==
    InPrimaryPass =>
        \A i \in 1..Len(missing) :
            (i < pos /\ ~HasRow(Table, missing[i]) /\ missing[i] < args.current_epoch)
                => missing[i] \in Range(rpc_failures)

\* ---------------------------------------------------------------------------------
\* The walk of a reward or leader-fee reconciler over its epochs, one epoch per step
\* (main.rs, fetch_rewards_with_cache and fetch_leader_fees_with_cache; the loops of
\* transactions.rs fetch_inflation_rewards_internal and leader_fees.rs
\* fetch_leader_fees).
\*
\* walk.epochs is the list the loop runs over, walk.pos the next index, walk.pending
\* the facts fetched and not yet handed to the store, walk.attempted the epochs
\* queried so far in order, walk.fetched the epochs whose query returned a fact and
\* walk.written the epochs of the batches the store committed.  The walk ends where
\* the Dune fallback of the cached path begins.
\* ---------------------------------------------------------------------------------

\* The facts one point query of an epoch can return: a list of one fact, or none.
FetchedOne(f, epoch) ==
    IF f = "rewards"
    THEN {<<RpcReward(epoch, a)>> : a \in Amounts} \cup {<<>>}
    ELSE {fetch_leader_fees(reply, epoch, epoch) : reply \in Answers({epoch}, Schedules)}

\* What the reconciler hands to the store of a fetched list: all of the rewards, the
\* completed epochs of the leader fees.
Kept(f, list, current_epoch) ==
    IF f = "rewards" THEN list ELSE Completed(list, current_epoch)

StoreOf(f, rows, list) ==
    IF f = "rewards" THEN store_epoch_rewards(rows, list) ELSE store_leader_fees(rows, list)

MissingOf(f, rows, start_epoch, end_epoch) ==
    IF f = "rewards" THEN get_missing_reward_epochs(rows, start_epoch, end_epoch)
    ELSE get_missing_leader_fee_epochs(rows, start_epoch, end_epoch)

\* The epochs of a list of facts.
EpochsOf(list) == {list[i].epoch : i \in 1..Len(list)}

\* The reconciler is entered: with no_cache the whole range is fetched by the loop of
\* the fetch function, otherwise the missing completed epochs are computed.
WalkInvoke(f, start_epoch, end_epoch, current_epoch, no_cache) ==
    /\ walk.pc = "idle"
    /\ LET begun == [NoWalk EXCEPT !.fact = f, !.no_cache = no_cache,
                                    !.current_epoch = current_epoch]
       IN  IF no_cache
           THEN \/ \* get_epoch_info / get_current_epoch fails: `?`
                   walk' = [begun EXCEPT !.pc = "done", !.ret = "upstream_err"]
                \/ walk' = [begun EXCEPT
                               !.epochs = RangeInclusive(start_epoch, end_epoch),
                               !.pc = IF end_epoch >= start_epoch THEN "fetching"
                                      ELSE "storing"]
           ELSE \/ \* a cache read fails: `?`
                   walk' = [begun EXCEPT !.pc = "done", !.ret = "read_err"]
                \/ LET missing_epochs ==
                           MissingOf(f, db[TableOf(f)], start_epoch,
                                     CompletedEnd(end_epoch, current_epoch))
                   IN  walk' = [begun EXCEPT
                                  !.epochs = missing_epochs,
                                  !.pc = IF missing_epochs # <<>> THEN "primary"
                                         ELSE "done",
                                  !.ret = IF missing_epochs # <<>> THEN "none" ELSE "ok"]
    /\ UNCHANGED <<db, tx, call, engineVars, transferVars, categorizeVars, report, cmd, callVars>>

\* no_cache: one iteration of `for epoch in start_epoch..=end` inside the fetch
\* function: the fact, when there is one, is pushed to the list being built.
WalkFetch ==
    /\ walk.pc = "fetching"
    /\ LET epoch == walk.epochs[walk.pos]
       IN  \E got \in FetchedOne(walk.fact, epoch) :
              walk' = [walk EXCEPT
                         !.attempted = Append(@, epoch),
                         !.pending = @ \o got,
                         !.fetched = @ \cup EpochsOf(got),
                         !.pos = @ + 1,
                         !.pc = IF walk.pos = Len(walk.epochs) THEN "storing"
                                ELSE "fetching"]
    /\ UNCHANGED <<db, tx, call, engineVars, transferVars, categorizeVars, report, cmd, callVars>>

\* no_cache: the fetch function has returned the whole list; it is stored in one call
\* and returned.
WalkStore ==
    /\ walk.pc = "storing"
    /\ LET kept == Kept(walk.fact, walk.pending, walk.current_epoch)
       IN  \/ /\ db' = [db EXCEPT ![TableOf(walk.fact)] = StoreOf(walk.fact, @, kept)]
              /\ walk' = [walk EXCEPT !.written = @ \cup EpochsOf(kept), !.pending = <<>>,
                                      !.pc = "done", !.ret = "ok"]
           \/ \* the store fails: `?`
              /\ kept # <<>>
              /\ UNCHANGED db
              /\ walk' = [walk EXCEPT !.pc = "done", !.ret = "store_err"]
    /\ UNCHANGED <<tx, call, engineVars, transferVars, categorizeVars, report, cmd, callVars>>

\* Cached path: one iteration of `for epoch in &missing`: the point query and, when it
\* returned a fact, its store.
WalkPrimary ==
    /\ walk.pc = "primary"
    /\ LET epoch == walk.epochs[walk.pos]
           after == IF walk.pos = Len(walk.epochs) THEN "done" ELSE "primary"
           ended == IF walk.pos = Len(walk.epochs) THEN "ok" ELSE "none"
       IN  \E got \in FetchedOne(walk.fact, epoch) :
              LET kept == Kept(walk.fact, got, walk.current_epoch)
              IN  \/ /\ db' = [db EXCEPT ![TableOf(walk.fact)] =
                                   StoreOf(walk.fact, @, kept)]
                     /\ walk' = [walk EXCEPT
                                   !.attempted = Append(@, epoch),
                                   !.fetched = @ \cup EpochsOf(got),
                                   !.written = @ \cup EpochsOf(kept),
                                   !.pos = @ + 1, !.pc = after, !.ret = ended]
                  \/ \* the store fails: `?`
                     /\ kept # <<>>
                     /\ UNCHANGED db
                     /\ walk' = [walk EXCEPT
                                   !.attempted = Append(@, epoch),
                                   !.fetched = @ \cup EpochsOf(got),
                                   !.pc = "done", !.ret = "store_err"]
    /\ UNCHANGED <<tx, call, engineVars, transferVars, categorizeVars, report, cmd, callVars>>

\* The walk is over; the next one can start on the store as it is now.
WalkFinish ==
    /\ walk.pc = "done"
    /\ walk' = NoWalk
    /\ UNCHANGED <<db, tx, call, engineVars, transferVars, categorizeVars, report, cmd, callVars>>

NextOrder ==
    \/ \E f \in {"rewards", "leader_fees"}, s \in 0..MaxEpoch, e \in Epochs, c \in Epochs,
          nc \in BOOLEAN : WalkInvoke(f, s, e, c, nc)
    \/ WalkFetch
    \/ WalkStore
    \/ WalkPrimary
    \/ WalkFinish

SpecOrder == Init /\ [][NextOrder]_vars

\* ---------------------------------------------------------------------------------
\* Claims about the order of the writes
\* ---------------------------------------------------------------------------------

\* A list of epochs is strictly ascending.
Ascending(list) == \A i, j \in 1..Len(list) : i < j => list[i] < list[j]

\* The walk is at the head of its loop (the fetch of the next epoch is about to begin)
\* or has returned.
BetweenEpochs == walk.pc \in {"fetching", "primary", "done"}

\* The epochs written so far are the fetched ones among those attempted; only the
\* completed epochs are looked at, the others being kept out of the store on purpose.
WrittenAreTheFetched ==
    /\ Ascending(walk.attempted)
    /\ {e \in walk.written : e < walk.current_epoch}
         = {e \in Range(walk.attempted) : e \in walk.fetched /\ e < walk.current_epoch}
    /\ \A e \in walk.written : HasRow(db[TableOf(walk.fact)], e)

\* C21: in every run mode the epochs are processed in ascending order and the row of
\* a fetched epoch is committed before the fetch of the next epoch begins: whenever
\* the walk is between two epochs, or over without a storage failure, the epochs it
\* has written are exactly the fetched ones among those attempted.
C21_AsStated ==
    (BetweenEpochs /\ walk.ret \notin StorageErrs) => WrittenAreTheFetched

\* The same holds on the cached path, where each iteration stores what it fetched.
C21_CachedWalkWritesEachEpoch ==
    (BetweenEpochs /\ ~walk.no_cache /\ walk.ret \notin StorageErrs) => WrittenAreTheFetched

\* ---------------------------------------------------------------------------------
\* Claims about the order of the steps of a run
\* ---------------------------------------------------------------------------------

\* The steps that reconcile the facts and the transfers of a run.
Reconciliations == {"rewards", "mev", "leader_fees", "vote_costs", "transfers"}

\* A step of the run has been taken.
Taken(step) == ResultOf(step) # "none"

\* C22: transfer categorization and report generation start only after rewards, MEV
\* claims, leader fees, vote costs and transfers have all been reconciled in the run.
C22_AsStated ==
    \A step \in {"categorize", "reports"} :
        (Taken(step) \/ report.step = step) => \A g \in Reconciliations : Taken(g)

\* Report generation does wait for all of them, and categorization for the transfers.
C22_ReportsAfterAll ==
    /\ (Taken("reports") \/ report.step = "reports") => \A g \in Reconciliations : Taken(g)
    /\ (Taken("categorize") \/ report.step = "categorize") =>
           (Taken("rewards") /\ Taken("transfers"))

\* ---------------------------------------------------------------------------------
\* Claims about the secondary query
\* ---------------------------------------------------------------------------------

\* A reward or leader-fee run.
EpochRun == Running /\ fact \in {"rewards", "leader_fees"}

\* The secondary source is configured and the run has a primary failure.
FallbackDue == ~args.no_cache /\ args.dune_api_key /\ rpc_failures # <<>>

\* The smallest epoch of the failure set.
EarliestFailure ==
    CHOOSE e \in Range(rpc_failures) : \A q \in Range(rpc_failures) : e <= q

\* The run has returned (the locals are still there).
RunReturned == pc = "done"

\* The run is past the decision about the fallback: it is at the fetch of the current
\* epoch or has returned Ok.
PastFallback == pc = "current" \/ (pc = "done" /\ ret = "ok")

C24_AsStated ==
    (TransfersReturned /\ transfer_run.no_cache) =>
        \A x \in transfer_run.returned :
            \E r \in db["sol_transfers"] : RowToTransfer(r) = x.transfer

\* The facts of the completed epochs a no_cache run of an epoch reconciler returns
\* are in the store after the run.
C24_FactsWrittenBack ==
    (Running /\ args.no_cache /\ pc = "done" /\ ret = "ok") =>
        \A i \in 1..Len(result) :
            result[i].epoch < args.current_epoch =>
                BindRow(TableOf(fact), result[i]) \in db[TableOf(fact)]

(***************************************************************************)
(* The leader-slots import command beside the leader-fee reconciler.       *)
(***************************************************************************)

\* The slots_by_epoch of a historical slot file with the reply of the node for each
\* listed slot: some epochs, each with 0..MaxSlots slots.
HistoricalSlots == Answers(Epochs, Schedules)

\* The `skipped` counter of fetch_fees_for_slots: Ok(None) replies.
Skipped(slots) == Len(SelectSeq(slots, LAMBDA b : ~b.produced /\ ~b.err))

\* The `unavailable` counter of fetch_fees_for_slots: Err(_) replies.
Unavailable(slots) == Len(SelectSeq(slots, LAMBDA b : b.err))

\* fetch_fees_for_slots that leaves the unavailable blocks out of skipped_slots.
fetch_fees_for_slots_SkippedOnly(epoch, slots) ==
    [epoch |-> epoch, leader_slots |-> Len(slots),
     blocks_produced |-> BlocksProduced(slots),
     skipped_slots |-> Skipped(slots),
     total_fees_lamports |-> SumFees(slots)]

\* fetch_fees_for_slots: one block query per listed slot.
fetch_fees_for_slots(epoch, slots) ==
    [epoch |-> epoch, leader_slots |-> Len(slots),
     blocks_produced |-> BlocksProduced(slots),
     skipped_slots |-> Skipped(slots) + Unavailable(slots),
     total_fees_lamports |-> SumFees(slots)]

\* import_historical_leader_fees once the file is loaded: the epochs in ascending
\* order, those without slots left out.
import_historical_leader_fees(file) ==
    LET listed == {e \in DOMAIN file : file[e] # <<>>}
    IN  Collect([e \in listed |-> fetch_fees_for_slots(e, file[e])], 0, MaxEpoch + 1)

\* The record of a command that has returned r: the epoch range it was given, the
\* rows its table held before it, the facts it built.
Returned(command, range, before, batch, r) ==
    [pc |-> "done", command |-> command, range |-> range, before |-> before,
     batch |-> batch, ret |-> r]

\* The leader-slots import command has returned r.
ImportReturned(batch, r) ==
    Returned("leader_slots_import", <<>>, db["leader_fees"], batch, r)

\* handle_leader_slots_command, Import: load the file, query the slots, store the
\* fees of all epochs in one store_leader_fees call.
LeaderSlotsImport ==
    /\ pc = "idle" /\ cmd.pc = "idle"
    /\ \/ \* load_config_file, Config::from_file or load_historical_slots fails: `?`
          /\ cmd' = ImportReturned(<<>>, "file_err")
          /\ UNCHANGED db
       \/ \E file \in HistoricalSlots :
             LET fees == import_historical_leader_fees(file)
             IN  IF fees = <<>>
                 THEN /\ cmd' = ImportReturned(<<>>, "ok")
                      /\ UNCHANGED db
                 ELSE \/ /\ db' = [db EXCEPT !["leader_fees"] = store_leader_fees(@, fees)]
                         /\ cmd' = ImportReturned(fees, "ok")
                      \/ \* store_leader_fees fails: `?`
                         /\ cmd' = ImportReturned(fees, "store_err")
                         /\ UNCHANGED db
    /\ UNCHANGED <<tx, call, engineVars, transferVars, categorizeVars, report, walk, callVars>>

\* The process of the command exits.
CommandExit ==
    /\ cmd.pc = "done"
    /\ cmd' = NoCmd
    /\ UNCHANGED <<db, tx, call, engineVars, transferVars, categorizeVars, report, walk, callVars>>

\* A run of the leader-fee reconciler, started when no command is in progress.
FeesInvoke(start_epoch, end_epoch, current_epoch, no_cache, dune_api_key) ==
    /\ cmd.pc = "idle"
    /\ Invoke("leader_fees", start_epoch, end_epoch, current_epoch, no_cache, dune_api_key)

NextFees ==
    \/ \E s \in 0..MaxEpoch, e \in Epochs, c \in Epochs, nc \in BOOLEAN, key \in BOOLEAN :
          FeesInvoke(s, e, c, nc, key)
    \/ FeesNoCache
    \/ FeesStart
    \/ FeesPrimary
    \/ FeesFallback
    \/ FeesCurrent
    \/ Finish
    \/ LeaderSlotsImport
    \/ CommandExit

SpecFees == Init /\ [][NextFees]_vars

(***************************************************************************)
(* C25: every leader-fee row of the store has                              *)
(* skipped_slots = leader_slots - blocks_produced.                         *)
(***************************************************************************)

\* C25: every row of the leader_fees table, whether the primary fetch, the
\* historical slot import, the Dune fallback or the negative record wrote it,
\* satisfies skipped_slots = leader_slots - blocks_produced.
C25_SkippedIsAssignedMinusProduced ==
    \A row \in db["leader_fees"] :
        RowToFees(row).skipped_slots
            = RowToFees(row).leader_slots - RowToFees(row).blocks_produced

\* An import has stored an epoch with a slot that produced no block beside a
\* negative record that the fallback of the reconciler wrote.
C25_Witness ==
    /\ cmd.pc = "done" /\ cmd.command = "leader_slots_import" /\ cmd.ret = "ok"
    /\ \E i \in 1..Len(cmd.batch) :
          /\ cmd.batch[i].skipped_slots > 0
          /\ FeesToRow(cmd.batch[i]) \in db["leader_fees"]
    /\ \E row \in db["leader_fees"] : RowToFees(row).leader_slots = 0

(***************************************************************************)
(* C26: a requested range without a completed epoch.                       *)
(***************************************************************************)

\* A cached run of the reward or leader-fee reconciler.
CachedEpochRun == CachedRun /\ fact \in {"rewards", "leader_fees"}

\* The run leaves the completed epochs alone: nothing is missing, no completed epoch
\* is queried at the primary source, the secondary source is not queried, the table
\* is as the run found it, and the only Err the run can return is that of a failed
\* cache read, which surfaces to the caller.
Quiet ==
    /\ missing = <<>>
    /\ \A e \in queried : ~(e < args.current_epoch)
    /\ dune.calls = 0
    /\ Table = rows0
    /\ pc = "done" => ret \in {"ok", "read_err"}

\* C26: when start_epoch > completed_end = min(end_epoch, current_epoch - 1), i.e. the
\* requested range holds no completed epoch, a cached run of the reward or leader-fee
\* reconciler has an empty missing set, makes no primary or secondary call for a
\* completed epoch, writes no row and returns without an error of its own.
C26_AsStated ==
    (CachedEpochRun /\ pc # "entry"
        /\ args.start_epoch > Min(args.end_epoch, args.current_epoch - 1)) => Quiet

\* The same for the completed_end the code computes,
\* end_epoch.min(current_epoch.saturating_sub(1)).
C26_QuietAboveCodeCompletedEnd ==
    (CachedEpochRun /\ pc # "entry"
        /\ args.start_epoch > CompletedEnd(args.end_epoch, args.current_epoch)) => Quiet

\* A run over a range of the current epoch alone, with rows of earlier epochs in the
\* table, has returned after its live fetch of the current epoch.
C26_QuietRunReturned ==
    /\ CachedEpochRun /\ pc = "done" /\ ret = "ok"
    /\ args.start_epoch > CompletedEnd(args.end_epoch, args.current_epoch)
    /\ args.start_epoch <= args.end_epoch
    /\ rows0 # {}
    /\ queried = {args.current_epoch}

(***************************************************************************)
(* C27: the epochs treated as completed are below current_epoch.           *)
(***************************************************************************)

\* The epochs the run lists as missing are below current_epoch and the completed_end
\* of the run is min(end_epoch, current_epoch - 1).
CompletedAreBelowCurrent ==
    /\ \A i \in 1..Len(missing) : missing[i] < args.current_epoch
    /\ CompletedEnd(args.end_epoch, args.current_epoch)
          = Min(args.end_epoch, args.current_epoch - 1)

\* C27: for every current_epoch >= 0 and every requested range, every epoch a cached
\* run treats as completed is strictly less than current_epoch, and completed_end is
\* min(end_epoch, current_epoch - 1).
C27_AsStated == (CachedRun /\ pc # "entry") => CompletedAreBelowCurrent

\* The same for current_epoch >= 1.
C27_BelowCurrentFromEpochOne ==
    (CachedRun /\ pc # "entry" /\ args.current_epoch >= 1) => CompletedAreBelowCurrent

(***************************************************************************)
(* C28: the secondary transfer query after a failed or empty scan.         *)
(***************************************************************************)

\* A cached run of the transfer reconciler with a secondary source has returned Ok.
CachedTransfersReturned ==
    TransfersReturned /\ ~transfer_run.no_cache /\ transfer_run.dune_api_key

\* The transfers the scans of the tracked accounts returned to the run.
ScannedTransfers == {x \in transfer_run.returned : x.account_key # "dune"}

\* C28: if the scan of a tracked account failed (its page requests failed until the
\* retries were exhausted) or the scans returned nothing, and a secondary source is
\* configured, the run has issued the secondary bulk transfer query.
C28_AsStated ==
    (CachedTransfersReturned /\ (transfer_run.retries_exhausted \/ ScannedTransfers = {}))
        => transfer_run.dune_calls = 1

\* What the code does: the query is issued exactly when neither the store nor the
\* scans gave the run a transfer, whether or not a scan failed.
C28_QueriedIffNothingKnown ==
    CachedTransfersReturned =>
        (transfer_run.dune_calls = 1
            <=> (transfer_run.cached = {} /\ ScannedTransfers = {}))

(***************************************************************************)
(* Vote costs: the import, the Dune query, the estimate command and the    *)
(* estimation of the report run.                                           *)
(***************************************************************************)

LAMPORTS_PER_VOTE == 5000

TYPICAL_VOTES_PER_EPOCH == 431000

\* The lamport amounts of the vote-cost records are counted in units of FeeUnit
\* lamports: the fee of the typical vote count of an epoch then stays inside the
\* scaled i64 range of the store.
FeeUnit == 1000

\* The SOL amounts of a file or of a Dune row are counted in parts of a fee unit:
\* SolScale parts make one unit.
SolScale == 2

\* `x as u64` of an f64: the fraction is dropped, a negative value saturates at 0.
FloatAsU64(x) == IF x < 0 THEN 0 ELSE x \div SolScale

\* dune.rs sol_to_lamports: 0 for a negative amount, else (sol * 1e9).round() as u64,
\* the half rounded up (the amounts of the model stay below MAX_SOL).
sol_to_lamports(sol) == IF sol < 0 THEN 0 ELSE (2 * sol + SolScale) \div (2 * SolScale)

\* EpochVoteCost <- VoteCostRow: the map of get_vote_costs.
RowToVoteCost(row) ==
    [epoch |-> AsU64(row.epoch),
     vote_count |-> AsU64(row.vote_count),
     total_fee_lamports |-> AsU64(row.total_fee_lamports),
     source |-> row.source]

\* Cache::store_vote_costs on success.
store_vote_costs(rows, costs) == ExecuteAll("vote_costs", rows, costs)

\* Cache::get_vote_costs
get_vote_costs(rows, start_epoch, end_epoch) ==
    LET sel == OrderByEpoch(WhereEpochBetween(rows, start_epoch, end_epoch))
    IN  [i \in 1..Len(sel) |-> RowToVoteCost(sel[i])]

\* The vote count and the fee in SOL a file or a Dune row gives for an epoch.
VoteCostInfos == [vote_count : {1, TYPICAL_VOTES_PER_EPOCH}, total_fee_sol : {-1, 0, 11}]

\* An EpochVoteCost as import_historical_vote_costs builds it from an entry of the file.
ImportedVoteCost(epoch, info) ==
    [epoch |-> epoch, vote_count |-> info.vote_count,
     total_fee_lamports |-> FloatAsU64(info.total_fee_sol), source |-> "dune"]

\* import_historical_vote_costs once the file is loaded: its epochs in ascending order.
import_historical_vote_costs(file) ==
    Collect([e \in DOMAIN file |-> ImportedVoteCost(e, file[e])], 0, MaxEpoch + 1)

\* An EpochVoteCost as DuneClient::fetch_vote_costs builds it from a row.
DuneVoteCost(epoch, row) ==
    [epoch |-> epoch, vote_count |-> row.vote_count,
     total_fee_lamports |-> sol_to_lamports(row.total_fee_sol), source |-> "dune"]

\* DuneClient::fetch_vote_costs once the query has answered: ORDER BY epoch.
fetch_vote_costs(answer) ==
    Collect([e \in DOMAIN answer |-> DuneVoteCost(e, answer[e])], 0, MaxEpoch + 1)

\* An estimate that takes the fee of one vote for the fee of the epoch.
estimate_vote_cost_OneVote(epoch) ==
    [epoch |-> epoch, vote_count |-> TYPICAL_VOTES_PER_EPOCH,
     total_fee_lamports |-> LAMPORTS_PER_VOTE \div FeeUnit, source |-> "estimated"]

\* vote_costs::estimate_vote_cost
estimate_vote_cost(epoch) ==
    LET vote_count == TYPICAL_VOTES_PER_EPOCH
        total_fee_lamports == vote_count * (LAMPORTS_PER_VOTE \div FeeUnit)
    IN  [epoch |-> epoch, vote_count |-> vote_count,
         total_fee_lamports |-> total_fee_lamports, source |-> "estimated"]

\* vote_costs::estimate_vote_costs: (start_epoch..=end_epoch).map(estimate_vote_cost)
estimate_vote_costs(start_epoch, end_epoch) ==
    [i \in 1..Len(RangeInclusive(start_epoch, end_epoch)) |->
        estimate_vote_cost(RangeInclusive(start_epoch, end_epoch)[i])]

\* A vote-costs command, or the vote-cost step of the report run, has returned r.
VoteCostsReturned(command, range, batch, r) ==
    Returned(command, range, db["vote_costs"], batch, r)

\* The store call of a vote-costs command and its return: Ok, or Err when
\* store_vote_costs fails (an empty batch returns Ok before the transaction).
StoreVoteCosts(command, range, costs) ==
    \/ /\ db' = [db EXCEPT !["vote_costs"] = store_vote_costs(@, costs)]
       /\ cmd' = VoteCostsReturned(command, range, costs, "ok")
    \/ /\ costs # <<>>
       /\ UNCHANGED db
       /\ cmd' = VoteCostsReturned(command, range, costs, "store_err")

\* handle_vote_costs_command, Import.
VoteCostsImport ==
    /\ cmd.pc = "idle"
    /\ \/ \* import_historical_vote_costs fails: `?`
          /\ cmd' = VoteCostsReturned("import", <<>>, <<>>, "file_err")
          /\ UNCHANGED db
       \/ \E file \in Answers(Epochs, VoteCostInfos) :
             StoreVoteCosts("import", <<>>, import_historical_vote_costs(file))
    /\ UNCHANGED <<tx, call, engineVars, transferVars, categorizeVars, report, walk, callVars>>

\* handle_dune_command, VoteCosts (and the vote-cost part of All).
DuneVoteCosts ==
    /\ cmd.pc = "idle"
    /\ \/ \* fetch_vote_costs fails: `?`
          /\ cmd' = VoteCostsReturned("dune", <<>>, <<>>, "upstream_err")
          /\ UNCHANGED db
       \/ \E answer \in Answers(Epochs, VoteCostInfos) :
             StoreVoteCosts("dune", <<>>, fetch_vote_costs(answer))
    /\ UNCHANGED <<tx, call, engineVars, transferVars, categorizeVars, report, walk, callVars>>

\* handle_vote_costs_command, Estimate { start, end }.
VoteCostsEstimate(start, end) ==
    /\ cmd.pc = "idle"
    /\ StoreVoteCosts("estimate", <<start, end>>, estimate_vote_costs(start, end))
    /\ UNCHANGED <<tx, call, engineVars, transferVars, categorizeVars, report, walk, callVars>>

\* Step 6 of run_report_generation: the cached vote costs of the range, an estimate
\* pushed for each epoch without one, the sort by epoch.  Nothing is stored.
LoadVoteCosts(start_epoch, end_epoch) ==
    /\ cmd.pc = "idle"
    /\ \/ \* get_vote_costs fails: `?`
          cmd' = VoteCostsReturned("report", <<start_epoch, end_epoch>>, <<>>, "read_err")
       \/ LET vote_costs == get_vote_costs(db["vote_costs"], start_epoch, end_epoch)
              cached_epochs == {vote_costs[i].epoch : i \in 1..Len(vote_costs)}
              estimated_epochs == SelectSeq(RangeInclusive(start_epoch, end_epoch),
                                            LAMBDA e : e \notin cached_epochs)
              estimates == [i \in 1..Len(estimated_epochs) |->
                               estimate_vote_cost(estimated_epochs[i])]
          IN  cmd' = VoteCostsReturned("report", <<start_epoch, end_epoch>>,
                                       SortByKeyEpoch(vote_costs \o estimates), "ok")
    /\ UNCHANGED <<db, tx, call, engineVars, transferVars, categorizeVars, report, walk, callVars>>

NextVoteCosts ==
    \/ VoteCostsImport
    \/ DuneVoteCosts
    \/ \E start \in Epochs, end \in Epochs : VoteCostsEstimate(start, end)
    \/ \E start_epoch \in Epochs, end_epoch \in Epochs : LoadVoteCosts(start_epoch, end_epoch)
    \/ CommandExit

SpecVoteCosts == Init /\ [][NextVoteCosts]_vars

(***************************************************************************)
(* C29: what an estimated vote-cost record carries.                        *)
(***************************************************************************)

\* An estimated record of epoch e: the tag, the typical vote count and the fee of
\* that many votes.
IsEstimateOf(c, e) ==
    /\ c.epoch = e
    /\ c.source = "estimated"
    /\ c.vote_count = TYPICAL_VOTES_PER_EPOCH
    /\ c.total_fee_lamports = c.vote_count * (LAMPORTS_PER_VOTE \div FeeUnit)

\* The epochs of the range of the command.
RangeOfCmd == Range(RangeInclusive(cmd.range[1], cmd.range[2]))

\* The epochs that had a row in the table before the command.
EpochsBefore == {RowToVoteCost(row).epoch : row \in cmd.before}

\* C29: the estimate command builds, for every epoch of its range, one record that
\* carries that epoch, the tag "estimated", vote_count = 431000 and
\* total_fee_lamports = vote_count * 5000; the report run builds such a record for
\* every epoch of its range without a row; no record of the import or of the Dune
\* query carries the tag "estimated".
C29_EstimatesAreTagged ==
    /\ (cmd.command = "estimate") =>
          /\ Len(cmd.batch) = Cardinality(RangeOfCmd)
          /\ \A i \in 1..Len(cmd.batch) : IsEstimateOf(cmd.batch[i], cmd.range[1] + i - 1)
    /\ (cmd.command = "report" /\ cmd.ret = "ok") =>
          \A e \in RangeOfCmd \ EpochsBefore :
             \E i \in 1..Len(cmd.batch) : IsEstimateOf(cmd.batch[i], e)
    /\ (cmd.command \in {"import", "dune"}) =>
          \A i \in 1..Len(cmd.batch) : cmd.batch[i].source # "estimated"

\* An estimate command over two epochs has stored its records beside a row of the
\* import or of the Dune query.
C29_Witness ==
    /\ cmd.command = "estimate" /\ cmd.ret = "ok"
    /\ Len(cmd.batch) = 2
    /\ \A i \in 1..Len(cmd.batch) : VoteCostToRow(cmd.batch[i]) \in db["vote_costs"]
    /\ \E row \in db["vote_costs"] : row.source = "dune"

(***************************************************************************)
(* C30: estimation fills only epochs without an authoritative row.         *)
(***************************************************************************)

\* A row of the primary or of the secondary source.
Authoritative(row) == row.source # "estimated"

\* No epoch that had an authoritative row before the command has an estimated one
\* after it.
AuthoritativeRowsNotEstimatedOver ==
    \A row \in cmd.before :
        Authoritative(row) =>
            \A now \in db["vote_costs"] : now.epoch = row.epoch => Authoritative(now)

\* C30: no operation, the estimate command over a range included, replaces an
\* existing authoritative vote-cost row with an estimated one.
C30_AsStated == cmd.pc = "done" => AuthoritativeRowsNotEstimatedOver

\* The same for every operation but the estimate command; the report run estimates
\* only the epochs without a row and leaves the table as it is.
C30_OnlyTheEstimateCommandReplaces ==
    /\ (cmd.pc = "done" /\ cmd.command # "estimate") => AuthoritativeRowsNotEstimatedOver
    /\ (cmd.command = "report") =>
          /\ db["vote_costs"] = cmd.before
          /\ \A i \in 1..Len(cmd.batch) :
                cmd.batch[i].source = "estimated" =>
                    \/ cmd.batch[i].epoch \notin EpochsBefore
                    \/ VoteCostToRow(cmd.batch[i]) \in cmd.before

(***************************************************************************)
(* fetch_mev_claims: the attempts of the request to the Jito API.          *)
(***************************************************************************)

\* let max_retries = 4
max_retries == 4

\* What one attempt can meet: a success status whose body parses ("ok") or does not
\* ("bad_body"), status 429, another status, or a failure of the transport.
JitoReplies == {"ok", "bad_body", "429", "status", "transport"}

RECURSIVE Pow2(_)
\* 2u64.pow(n)
Pow2(n) == IF n = 0 THEN 1 ELSE 2 * Pow2(n - 1)

\* A backoff whose base is 2 seconds whatever the previous attempt met.
BackoffDelay_NoRateLimit(attempt, was_rate_limited) == 2 * Pow2(attempt - 1)

\* The delay slept before attempt `attempt` > 0: base_delay * 2^(attempt - 1) seconds.
BackoffDelay(attempt, was_rate_limited) ==
    (IF was_rate_limited THEN 30 ELSE 2) * Pow2(attempt - 1)

\* The error an unsuccessful attempt leaves in last_error.
LastError(reply) ==
    CASE reply = "429"       -> "rate_limited"
      [] reply = "status"    -> "status_err"
      [] reply = "transport" -> "request_failed"

\* fetch_mev_claims is entered.
JitoInvoke ==
    /\ upstream.pc = "idle"
    /\ upstream' = [NoRequest EXCEPT !.pc = "attempt", !.call = "fetch_mev_claims"]
    /\ UNCHANGED <<db, tx, call, engineVars, transferVars, categorizeVars, report, walk, cmd>>

\* One iteration of `for attempt in 0..max_retries`: the sleep before a retry, the
\* request, and the return when the response is a success or the loop is over.
JitoAttempt ==
    /\ upstream.pc = "attempt" /\ upstream.call = "fetch_mev_claims"
    /\ upstream.attempt < max_retries
    /\ \E reply \in JitoReplies :
          LET slept == IF upstream.attempt > 0
                       THEN Append(upstream.delays,
                                   BackoffDelay(upstream.attempt, upstream.was_rate_limited))
                       ELSE upstream.delays
              made == [upstream EXCEPT !.attempt = @ + 1, !.delays = slept,
                                       !.replies = Append(@, reply)]
          IN  upstream' =
                 CASE reply = "ok" ->
                         \* return process_jito_epochs(epochs)
                         [made EXCEPT !.pc = "done", !.ret = "ok"]
                   [] reply = "bad_body" ->
                         \* response.json().await?
                         [made EXCEPT !.pc = "done", !.ret = "parse_err"]
                   [] OTHER ->
                         [made EXCEPT
                             !.was_rate_limited = (reply = "429"),
                             !.pc = IF made.attempt = max_retries THEN "done" ELSE "attempt",
                             !.ret = IF made.attempt = max_retries THEN LastError(reply)
                                     ELSE "none"]
    /\ UNCHANGED <<db, tx, call, engineVars, transferVars, categorizeVars, report, walk, cmd>>

\* The caller has taken the Result of the request.
RequestFinish ==
    /\ upstream.pc = "done"
    /\ upstream' = NoRequest
    /\ UNCHANGED <<db, tx, call, engineVars, transferVars, categorizeVars, report, walk, cmd>>

NextJito ==
    \/ JitoInvoke
    \/ JitoAttempt
    \/ RequestFinish

SpecJito == Init /\ [][NextJito]_vars

(***************************************************************************)
(* C31: the attempts of fetch_mev_claims are bounded, with backoff.        *)
(***************************************************************************)

JitoCall == upstream.call = "fetch_mev_claims"

JitoReturned == JitoCall /\ upstream.pc = "done"

\* At most max_retries attempts, each but the first after its delay: base 30 seconds
\* after a 429 and 2 seconds otherwise, doubled for each further retry; a call that
\* has not returned has an attempt left.
BoundedWithBackoff ==
    /\ upstream.attempt <= max_retries
    /\ Len(upstream.replies) = upstream.attempt
    /\ upstream.pc = "attempt" => upstream.attempt < max_retries
    /\ Len(upstream.delays) = (IF upstream.attempt = 0 THEN 0 ELSE upstream.attempt - 1)
    /\ \A k \in 1..Len(upstream.delays) :
          upstream.delays[k]
             = (IF upstream.replies[k] = "429" THEN 30 ELSE 2) * Pow2(k - 1)

\* The attempts before the last one failed.
EarlierAttemptsFailed ==
    \A k \in 1..(Len(upstream.replies) - 1) :
        upstream.replies[k] \in {"429", "status", "transport"}

\* The call returns its last error after max_retries failed attempts.
LastErrorAfterAllFailed ==
    /\ upstream.attempt = max_retries
    /\ upstream.replies[max_retries] \in {"429", "status", "transport"}
    /\ upstream.ret = LastError(upstream.replies[max_retries])

\* C31: fetch_mev_claims makes at most 4 attempts; it returns the parsed claims on the
\* first response with a success status, and the last error when all 4 attempts
\* failed; the delay before retry k is 30 s (after a 429) or 2 s, times 2^(k-1).
C31_AsStated ==
    JitoCall =>
        /\ BoundedWithBackoff
        /\ EarlierAttemptsFailed
        /\ JitoReturned =>
              IF upstream.replies[upstream.attempt] \in {"ok", "bad_body"}
              THEN upstream.ret = "ok"
              ELSE LastErrorAfterAllFailed

\* C31, with the third outcome of the code: a response with a success status whose
\* body does not parse ends the call at once with the parse error.
C31_BoundedRetries ==
    JitoCall =>
        /\ BoundedWithBackoff
        /\ EarlierAttemptsFailed
        /\ JitoReturned =>
              CASE upstream.replies[upstream.attempt] = "ok" -> upstream.ret = "ok"
                [] upstream.replies[upstream.attempt] = "bad_body" ->
                      upstream.ret = "parse_err"
                [] OTHER -> LastErrorAfterAllFailed

\* Four failed attempts, the first and the third answered with 429: the delays were
\* 30, 4 and 120 seconds and the error of the last attempt is returned.
C31_Witness ==
    /\ JitoReturned
    /\ upstream.replies = <<"429", "status", "429", "transport">>
    /\ upstream.delays = <<30, 4, 120>>
    /\ upstream.ret = "request_failed"

(***************************************************************************)
(* C32: the pagination loop of fetch_transfers_for_account terminates.     *)
(***************************************************************************)

\* A step of the pagination loop that stays in the loop, and one that leaves it.
PagingGoesOn == transfer_run.pc = "paging" /\ transfer_run'.pc = "paging"

PagingEnds == transfer_run.pc = "paging" /\ transfer_run'.pc = "parse"

\* The page request of the step succeeded.
PageSucceeded == account_scan'.pages = account_scan.pages + 1

QueryTimeout == 3

\* The longest one request for the results takes, in polling intervals.
MaxLatency == 1

\* What the request for the results can meet: the states of the execution
\* ("QUERY_STATE_COMPLETED" with or without a result, "QUERY_STATE_FAILED", any other
\* state), a failure of the transport, or a body that does not parse.
PollReplies ==
    {"QUERY_STATE_COMPLETED", "QUERY_STATE_COMPLETED_no_result", "QUERY_STATE_FAILED",
     "QUERY_STATE_PENDING", "QUERY_STATE_EXECUTING", "transport", "bad_body"}

\* A polling loop that takes QUERY_STATE_FAILED for one more state to wait out.
PollOutcome_FailedKeepsPolling(reply) ==
    CASE reply = "QUERY_STATE_COMPLETED"           -> [pc |-> "done", ret |-> "ok"]
      [] reply = "QUERY_STATE_COMPLETED_no_result" -> [pc |-> "done", ret |-> "ok_empty"]
      [] reply = "QUERY_STATE_FAILED"              -> [pc |-> "done", ret |-> "ok_empty"]
      [] reply = "transport"                       -> [pc |-> "done", ret |-> "request_failed"]
      [] reply = "bad_body"                        -> [pc |-> "done", ret |-> "parse_err"]
      [] OTHER                                     -> [pc |-> "poll", ret |-> "none"]

\* match response.state.as_str(), with the `?` of send() and json() before it.
PollOutcome(reply) ==
    CASE reply = "QUERY_STATE_COMPLETED"           -> [pc |-> "done", ret |-> "ok"]
      [] reply = "QUERY_STATE_COMPLETED_no_result" -> [pc |-> "done", ret |-> "ok_empty"]
      [] reply = "QUERY_STATE_FAILED"              -> [pc |-> "done", ret |-> "query_failed"]
      [] reply = "transport"                       -> [pc |-> "done", ret |-> "request_failed"]
      [] reply = "bad_body"                        -> [pc |-> "done", ret |-> "parse_err"]
      [] OTHER                                     -> [pc |-> "poll", ret |-> "none"]

\* The fallback of the reward reconciler is about to query Dune.
QueryDue ==
    /\ pc = "fallback" /\ fact = "rewards"
    /\ prepare_dune_fallback(rpc_failures, args.dune_api_key).some

\* execute_query is entered: the submission, the initial delay, and the start of the
\* clock of the timeout.
ExecuteSubmit ==
    /\ QueryDue
    /\ upstream.pc = "idle"
    /\ \E submitted \in {"ok", "transport", "bad_body"} :
          upstream' =
             [NoRequest EXCEPT
                 !.call = "execute_query",
                 !.pc = IF submitted = "ok" THEN "poll" ELSE "done",
                 !.ret = CASE submitted = "ok"        -> "none"
                           [] submitted = "transport" -> "request_failed"
                           [] submitted = "bad_body"  -> "parse_err"]
    /\ UNCHANGED <<db, tx, call, engineVars, transferVars, categorizeVars, report, walk, cmd>>

\* One iteration of the polling loop: the check of the timeout, the request for the
\* results (which takes `latency`), the match on the state, and the sleep before the
\* next iteration.
ExecutePoll ==
    /\ upstream.pc = "poll" /\ upstream.call = "execute_query"
    /\ IF upstream.elapsed > QueryTimeout
       THEN upstream' = [upstream EXCEPT !.pc = "done", !.ret = "timed_out"]
       ELSE \E reply \in PollReplies, latency \in 0..MaxLatency :
               LET out == PollOutcome(reply)
               IN  upstream' =
                      [upstream EXCEPT
                          !.attempt = @ + 1,
                          !.replies = Append(@, reply),
                          !.sent_at = upstream.elapsed,
                          !.elapsed = @ + latency + (IF out.pc = "poll" THEN 1 ELSE 0),
                          !.pc = out.pc,
                          !.ret = out.ret]
    /\ UNCHANGED <<db, tx, call, engineVars, transferVars, categorizeVars, report, walk, cmd>>

\* The Result of execute_query as fetch_inflation_rewards passes it on: an Err stays
\* an Err (`?`), rows may still fail to parse, and a completed query without a result
\* has no rows.
TakesQueryResult ==
    /\ upstream.ret \notin {"ok", "ok_empty"} => dune'.outcome = "err"
    /\ upstream.ret = "ok_empty" => (dune'.outcome = "err" \/ dune'.resp = <<>>)

\* The fallback of the reward reconciler, with the Result of the query.
QueryFallback ==
    /\ QueryDue
    /\ upstream.pc = "done" /\ upstream.call = "execute_query"
    /\ RewardsFallback
    /\ TakesQueryResult

\* The fallback of the reward reconciler when there is nothing to ask Dune for.
NoQueryFallback ==
    /\ ~QueryDue
    /\ RewardsFallback

\* The Result of the query is dropped once the reconciler has gone on.
QueryFinish ==
    /\ pc # "fallback"
    /\ upstream.call = "execute_query"
    /\ RequestFinish

NextDune ==
    \/ \E s \in 0..MaxEpoch, e \in Epochs, c \in Epochs, key \in BOOLEAN :
          upstream.pc = "idle" /\ Invoke("rewards", s, e, c, FALSE, key)
    \/ RewardsStart
    \/ RewardsPrimary
    \/ ExecuteSubmit
    \/ ExecutePoll
    \/ QueryFallback
    \/ NoQueryFallback
    \/ RewardsCurrent
    \/ Finish
    \/ QueryFinish

SpecDune == Init /\ [][NextDune]_vars


(***************************************************************************)
(* C33: what execute_query returns, and what the fallback makes of it.     *)
(***************************************************************************)

QueryCall == upstream.call = "execute_query"

QueryReturned == QueryCall /\ upstream.pc = "done"

\* execute_query returned Ok(rows).
QueryRows == QueryReturned /\ upstream.ret \in {"ok", "ok_empty"}

\* execute_query returned an Err.
QueryErr == QueryReturned /\ upstream.ret \notin {"ok", "ok_empty"}

\* A state of the execution that is neither completed nor failed.
Waiting(reply) == reply \in {"QUERY_STATE_PENDING", "QUERY_STATE_EXECUTING"}

\* The last state or failure the polling met.
LastReply == upstream.replies[Len(upstream.replies)]

\* Rows are returned only after QUERY_STATE_COMPLETED was observed.
RowsOnlyAfterCompleted ==
    QueryRows =>
        /\ upstream.replies # <<>>
        /\ LastReply \in {"QUERY_STATE_COMPLETED", "QUERY_STATE_COMPLETED_no_result"}

\* QUERY_STATE_FAILED, a failure of the transport and a body that does not parse end
\* the call with an error.
ErrorOnFailure ==
    (QueryCall /\ upstream.replies # <<>>) =>
        /\ LastReply = "QUERY_STATE_FAILED" =>
              (upstream.pc = "done" /\ upstream.ret = "query_failed")
        /\ LastReply = "transport" =>
              (upstream.pc = "done" /\ upstream.ret = "request_failed")
        /\ LastReply = "bad_body" =>
              (upstream.pc = "done" /\ upstream.ret = "parse_err")

\* In any other state the call keeps polling: every reply before the last was such a
\* state, and after such a state the call polls again or times out.
KeepsPolling ==
    QueryCall =>
        /\ \A i \in 1..(Len(upstream.replies) - 1) : Waiting(upstream.replies[i])
        /\ (upstream.replies # <<>> /\ Waiting(LastReply)) =>
              \/ upstream.pc = "poll"
              \/ upstream.ret = "timed_out" /\ upstream.elapsed > QueryTimeout

\* A query that returned an Err is not taken for a response and leaves no row for an
\* epoch of the failure set.
FailedQueryLeavesNoRecord ==
    (QueryErr /\ pc \in {"current", "done"}) =>
        /\ dune.outcome = "err"
        /\ \A e \in Range(rpc_failures) : ~HasRow(Table, e)

\* Once the timeout has elapsed the call returns an error.
ErrorOnceTimedOut ==
    (QueryReturned /\ upstream.elapsed > QueryTimeout) => QueryErr

\* The timeout is looked at before each request for the results: rows come from a
\* request sent before the timeout had elapsed, and the call times out only after it.
ErrorWhenTimedOutBeforeRequest ==
    /\ QueryRows => upstream.sent_at <= QueryTimeout
    /\ (QueryCall /\ upstream.ret = "timed_out") => upstream.elapsed > QueryTimeout

\* C33 as stated: execute_query returns a row set only after observing
\* QUERY_STATE_COMPLETED; on QUERY_STATE_FAILED, on a transport or parse error, or once
\* the hard timeout has elapsed it returns an error; in any other state it keeps
\* polling; a failed or timed-out query never counts as a successful response and never
\* leads to a negative record.
C33_AsStated ==
    /\ RowsOnlyAfterCompleted
    /\ ErrorOnFailure
    /\ ErrorOnceTimedOut
    /\ KeepsPolling
    /\ FailedQueryLeavesNoRecord

\* C33 amended: the same, but the timeout is looked at only before each request for the
\* results, so that a request sent within the timeout whose answer
\* QUERY_STATE_COMPLETED arrives after it still returns its rows.
C33_ErrorsNeverCountAsResponse ==
    /\ RowsOnlyAfterCompleted
    /\ ErrorOnFailure
    /\ ErrorWhenTimedOutBeforeRequest
    /\ KeepsPolling
    /\ FailedQueryLeavesNoRecord

\* C33 witness: the query timed out after polling states that are neither completed
\* nor failed, and the reward run ended with its two failed epochs still missing.
C33_Witness ==
    /\ QueryReturned /\ upstream.ret = "timed_out"
    /\ Len(upstream.replies) >= 2
    /\ pc = "done" /\ ret = "ok"
    /\ Len(rpc_failures) = 2
    /\ dune.outcome = "err"


(***************************************************************************)
(* C34: the dates of the epochs and the window of the Dune query.          *)
(***************************************************************************)

\* The epochs whose dates are compared.
MaxDateEpoch == 1000

\* dt.format("%Y-%m-%d"): year, month and day of a day counted from 1970-01-01
\* (proleptic Gregorian calendar).
FormatDate(days) ==
    LET z     == days + 719468
        era   == z \div 146097
        doe   == z - era * 146097
        yoe   == (doe - doe \div 1460 + doe \div 36524 - doe \div 146096) \div 365
        doy   == doe - (365 * yoe + yoe \div 4 - yoe \div 100)
        mp    == (5 * doy + 2) \div 153
        d     == doy - (153 * mp + 2) \div 5 + 1
        m     == IF mp < 10 THEN mp + 3 ELSE mp - 9
        y     == yoe + era * 400 + (IF m <= 2 THEN 1 ELSE 0)
    IN  <<y, m, d>>

\* block_date >= DATE 'start_date': the order of two dates.
DateLeq(a, b) ==
    \/ a[1] < b[1]
    \/ a[1] = b[1] /\ a[2] < b[2]
    \/ a[1] = b[1] /\ a[2] = b[2] /\ a[3] <= b[3]

\* The date never goes back from one epoch to the next, and moves by two days.
DatesMonotone ==
    \A e \in 0..(MaxDateEpoch - 1) :
        /\ DateLeq(FormatDate(epoch_to_date(e)), FormatDate(epoch_to_date(e + 1)))
        /\ epoch_to_date(e + 1) = epoch_to_date(e) + 2

\* The calibration of the dates (test_epoch_to_date).
DatesCalibrated ==
    /\ FormatDate(epoch_to_date(896)) = <<2025, 12, 16>>
    /\ FormatDate(epoch_to_date(900)) = <<2025, 12, 24>>
    /\ FormatDate(epoch_to_date(904)) = <<2026, 1, 1>>

\* The Dune query of the run was made.
DuneQueried == Running /\ dune.outcome # "none"

\* The window of the query starts at the date of the earliest failed epoch and holds
\* the date of every failed epoch.
WindowCoversFailureSet ==
    DuneQueried =>
        /\ dune.start_date = epoch_to_date(MinOf(rpc_failures))
        /\ \A e \in Range(rpc_failures) :
              DateLeq(FormatDate(dune.start_date), FormatDate(epoch_to_date(e)))

FirstScan == transfer_run.runs = 1 /\ transfer_run.account = 1

\* The entries of the account's history at positions above the cursor the scan began
\* with and at or below the cursor it persisted.
NewlyCovered ==
    {e \in account_scan.history :
        /\ account_scan.stop_at_slot # None => SlotOf(e) > account_scan.stop_at_slot[1]
        /\ Cursor(account_scan.label) # None
        /\ SlotOf(e) <= Cursor(account_scan.label)[1]}

\* The entries the scan fetched (one of the three tries returned Ok) and parsed.
FetchedAndParsed == account_scan.history \cap account_scan.fetched

\* C35 as stated: whenever a scan persists a new cursor c for an account, every history
\* entry of that account with position in (old cursor, c] has been fetched and parsed,
\* also when the pagination ended at the signature limit or after exhausted page or
\* transaction retries (stated of the first scan of the first run, before which nothing
\* was scanned).
C35_AsStated ==
    (ScanPersisted /\ FirstScan) => NewlyCovered \subseteq FetchedAndParsed


(***************************************************************************)
(* C36: the order of the cursor write and the transfer write.              *)
(***************************************************************************)

\* The store holds the transfer.
Stored(t) == \E r \in db["sol_transfers"] : RowToTransfer(r) = t

\* The transfers the scans of the running cached run extracted, each with the account
\* scanned.
Extracted ==
    IF transfer_run.pc = "idle" \/ transfer_run.no_cache THEN {}
    ELSE {x \in transfer_run.returned : x.account_key # "dune"}

\* The transfer is at or below the persisted cursor of the account it was extracted for.
Covered(x) ==
    /\ Cursor(x.account_key) # None
    /\ x.transfer.slot <= Cursor(x.account_key)[1]

\* C36 as stated: at every point at which a run can be interrupted or can fail with a
\* storage error, every transfer extracted from entries at positions <= the persisted
\* cursor of its account is present in the store: the cursor is never persisted before
\* the transfers it covers.
C36_AsStated ==
    \A x \in Extracted : Covered(x) => Stored(x.transfer)


(***************************************************************************)
(* C37: a run and the run that follows it over the same range.             *)
(***************************************************************************)

\* The cached facts of the running reconciler over [start_epoch, end_epoch].
GetCached(start_epoch, end_epoch) ==
    IF fact = "rewards"
    THEN get_epoch_rewards(Table, start_epoch, end_epoch)
    ELSE get_leader_fees(Table, start_epoch, end_epoch)

\* A reward or leader-fee run through the cache has returned its list, the range ends
\* below the current epoch, and the store has a row for every epoch of the range: the
\* run that follows it with the same arguments asks no upstream source.
RerunIsCacheOnly ==
    /\ CachedRun /\ pc = "done" /\ ret = "ok"
    /\ fact \in {"rewards", "leader_fees"}
    /\ args.end_epoch < args.current_epoch
    /\ GetMissing(args.start_epoch, CompletedEnd(args.end_epoch, args.current_epoch)) = <<>>

\* What that following run returns: the cached facts of the range, sorted by epoch.
RerunResult ==
    SortByKeyEpoch(GetCached(args.start_epoch,
                             CompletedEnd(args.end_epoch, args.current_epoch)))

\* The run wrote a negative record.
NegativeCached == \E e \in Range(rpc_failures) : ZeroRow(e) \in Table

\* C37 as stated: with no_cache unset and unchanged upstream responses, the list a reward
\* or leader-fee run returns equals the list the immediately following run over the same
\* range returns (stated where the following run is cache-only), with at most one record
\* per epoch in ascending epoch order.
C37_AsStated ==
    RerunIsCacheOnly =>
        /\ result = RerunResult
        /\ OnePerEpochWithin(result, args.start_epoch, args.end_epoch)
        /\ \A i, j \in 1..Len(result) : i < j => result[i].epoch < result[j].epoch


(***************************************************************************)
(* C38: the cached MEV claims and the list a run returns.  The MEV         *)
(* reconciler is run at current epochs far enough from the cached claims   *)
(* for a claim to be cached and not recent.                                *)
(***************************************************************************)

\* The epochs the runs of the MEV reconciler are invoked with.
LaterEpochs == 0..(MaxEpoch + 2)

NextMev ==
    \/ \E s \in Epochs, e \in LaterEpochs, c \in LaterEpochs, nc \in BOOLEAN :
          Invoke("mev", s, e, c, nc, FALSE)
    \/ MevNoCache
    \/ MevCached
    \/ Finish

SpecMev == Init /\ [][NextMev]_vars

\* A MEV run through the cache has returned its list.
CachedMevReturned == CachedRun /\ fact = "mev" /\ pc = "done" /\ ret = "ok"

\* The claims the store held for the requested completed range when the run began.
CachedBefore ==
    Range(get_mev_claims(rows0, args.start_epoch,
                         CompletedEnd(args.end_epoch, args.current_epoch)))

\* C38 as stated: with no_cache unset, every MEV claim cached for an epoch of the
\* requested completed range has its epoch in the list the run returns, also when the
\* run re-queries the primary source and its response omits that epoch.
C38_AsStated ==
    CachedMevReturned =>
        \A c \in CachedBefore : \E i \in 1..Len(result) : result[i].epoch = c.epoch

====
